---------------------------- MODULE Spec2Model ----------------------------
(***************************************************************************)
(* FIFO cost-basis PNL engine of sova-pnl-python.                          *)
(*                                                                         *)
(* The model follows PNLCalculator.calculate_token_pnl (src/pnl_engine.py) *)
(* and the helpers it calls in src/utils.py.  One call of the function is  *)
(* one behaviour: Init fixes the token snapshot and the configured         *)
(* price_tolerance, every Process step is one iteration of the             *)
(* `for i, t in enumerate(transfers)` loop on the next transfer of the     *)
(* list, and a Return*/Finish step is one of the function's return         *)
(* statements.  The function reads transfers[i] only in iteration i, so    *)
(* the list is drawn one element per iteration; `transfers` holds the      *)
(* part of the list consumed so far.                                       *)
(*                                                                         *)
(* Python floats are modelled as IEEE 754 doubles: every operation gives   *)
(* the double nearest to the exact result, as the code's arithmetic does.  *)
(***************************************************************************)
EXTENDS Integers, Sequences, FiniteSets, TLC

\* ------------------------------------------------------------------------
\* Bounds of the model
\* ------------------------------------------------------------------------

\* Longest transfer list handed to calculate_token_pnl.
MaxTransfers == 3

\* Most calls in progress at once on one PNLCalculator, and the longest
\* transfer list such a call is given.
MaxCalls == 2
MaxCallTransfers == 2

\* Most assets in a wallet, and longest transfer list the API client collects
\* for one asset.
MaxAssets == 2
MaxFetched == 2

\* ------------------------------------------------------------------------
\* Natural numbers of any size (the integers of the tool have 32 bits): the
\* sequence of the digits in base 2^14, least significant first, without
\* leading zero digit; the empty sequence is 0.
\* ------------------------------------------------------------------------

Abs(i) == IF i < 0 THEN -i ELSE i

\* The element of a one-element set: The({e : v \in {d}}) is e with v
\* standing for the value of d.
The(S) == CHOOSE e \in S : TRUE

LimbBits == 14
Base == 16384

Pow2(k) == 2^k

RECURSIVE BTrim(_)
\* a without its leading zero digits
BTrim(a) ==
    IF a = <<>> THEN a
    ELSE IF a[Len(a)] = 0 THEN BTrim(SubSeq(a, 1, Len(a) - 1))
    ELSE a

RECURSIVE BNat(_)
\* The integer i >= 0.
BNat(i) ==
    IF i < Base THEN (IF i = 0 THEN <<>> ELSE <<i>>)
    ELSE <<i % Base>> \o BNat(i \div Base)

\* Digit k of a, 0 outside of a.
Limb(a, k) == IF k >= 1 /\ k <= Len(a) THEN a[k] ELSE 0

RECURSIVE BAddSubFrom(_, _, _, _, _)
\* The digits k and above of a + sg * b, with the carry c (-1, 0 or 1) into
\* digit k.
BAddSubFrom(a, b, sg, k, c) ==
    IF k > Len(a) /\ k > Len(b) THEN (IF c = 0 THEN <<>> ELSE <<c>>)
    ELSE The({ <<d % Base>> \o BAddSubFrom(a, b, sg, k + 1, d \div Base)
               : d \in {Limb(a, k) + sg * Limb(b, k) + c} })

\* a + sg * b for sg = 1, and for sg = -1 when a >= b
BAddSub(a, b, sg) == BTrim(BAddSubFrom(a, b, sg, 1, 0))

\* -1, 0 or 1 as a < b, a = b or a > b
BCmp(a, b) ==
    IF a = b THEN 0
    ELSE IF Len(a) # Len(b) THEN (IF Len(a) < Len(b) THEN -1 ELSE 1)
    ELSE The({ IF a[k] < b[k] THEN -1 ELSE 1
               : k \in { j \in 1..Len(a) :
                           a[j] # b[j] /\ \A i \in (j + 1)..Len(a) : a[i] = b[i] } })

RECURSIVE BMulAddFrom(_, _, _, _, _)
\* The digits k and above of a * m + b for a digit m or its negative, with
\* the carry c into digit k; a negative result ends with a negative digit.
BMulAddFrom(a, m, b, k, c) ==
    IF k > Len(a) /\ k > Len(b) THEN (IF c < 0 THEN <<c>> ELSE BNat(c))
    ELSE The({ <<d % Base>> \o BMulAddFrom(a, m, b, k + 1, d \div Base)
               : d \in {Limb(a, k) * m + Limb(b, k) + c} })

\* a * m for 0 <= m <= 2^16
BMulSmall(a, m) == IF m = 0 THEN <<>> ELSE BMulAddFrom(a, m, <<>>, 1, 0)

RECURSIVE BMul(_, _)
\* a * b
BMul(a, b) ==
    IF a = <<>> \/ b = <<>> THEN <<>>
    ELSE IF Len(b) = 1 THEN BMulSmall(a, b[1])
    ELSE BMulAddFrom(a, Head(b), <<0>> \o BMul(a, Tail(b)), 1, 0)

\* a * 2^bits
BShl(a, bits) ==
    IF bits = 0 THEN a
    ELSE The({ BTrim([k \in 1..(Len(a) + q + 1) |->
                         ((Limb(a, k - q) * p) % Base) + ((Limb(a, k - q - 1) * p) \div Base)])
               : q \in {bits \div LimbBits}, p \in {Pow2(bits % LimbBits)} })

\* floor(a / 2^bits)
BShr(a, bits) ==
    IF bits = 0 THEN a
    ELSE The({ BTrim([k \in 1..(Len(a) - q) |->
                         (a[k + q] \div p) + ((Limb(a, k + q + 1) % p) * (Base \div p))])
               : q \in {bits \div LimbBits}, p \in {Pow2(bits % LimbBits)} })

\* a mod 2^bits = 0
BLowZero(a, bits) ==
    /\ \A k \in 1..(bits \div LimbBits) : Limb(a, k) = 0
    /\ Limb(a, bits \div LimbBits + 1) % Pow2(bits % LimbBits) = 0

RECURSIVE BitLen(_, _, _)
\* The number of binary digits of the integer i > 0, which is in lo..hi.
BitLen(i, lo, hi) ==
    IF lo = hi THEN lo
    ELSE IF i < Pow2((lo + hi) \div 2) THEN BitLen(i, lo, (lo + hi) \div 2)
    ELSE BitLen(i, (lo + hi) \div 2 + 1, hi)

\* The number of binary digits of a.
BBitLen(a) ==
    IF a = <<>> THEN 0 ELSE LimbBits * (Len(a) - 1) + BitLen(a[Len(a)], 1, LimbBits)

RECURSIVE BTz(_)
\* The number of trailing zero binary digits of a > 0.
BTz(a) ==
    IF a[1] = 0 THEN LimbBits + BTz(Tail(a))
    ELSE IF a[1] % 2 = 1 THEN 0
    ELSE 1 + BTz(<<a[1] \div 2>>)

RECURSIVE BDivDigit(_, _, _)
\* <<q, cur - q * d>> for the largest digit q <= guess with q * d <= cur,
\* given rem = cur - guess * d, whose last digit is negative when it is.
BDivDigit(rem, d, guess) ==
    IF rem # <<>> /\ rem[Len(rem)] < 0
    THEN BDivDigit(BAddSubFrom(rem, d, 1, 1, 0), d, guess - 1)
    ELSE <<guess, BTrim(rem)>>

RECURSIVE BDivFrom(_, _, _, _, _)
\* Long division of n by d from digit k of n down, r the remainder and q the
\* quotient digits of the digits above k: floor(n / d), and whether the
\* division is exact.  The leading digit of d is at least Base / 2 and d has
\* two digits or more; est is at least the quotient digit.
BDivFrom(n, d, k, r, q) ==
    IF k = 0 THEN [q |-> BTrim(q), exact |-> r = <<>>]
    ELSE The({ The({ BDivFrom(n, d, k - 1, qr[2], <<qr[1]>> \o q)
                     : qr \in { BDivDigit(BMulAddFrom(d, -est, <<n[k]>> \o r, 1, 0),
                                          d, est) } })
               : est \in { The({ IF e >= Base THEN Base - 1 ELSE e
                                  : e \in {(Limb(r, Len(d)) * Base + Limb(r, Len(d) - 1))
                                           \div d[Len(d)]} }) } })

RECURSIVE BDivShortFrom(_, _, _, _, _)
\* The same for a divisor of one digit, the integer d.
BDivShortFrom(n, d, k, r, q) ==
    IF k = 0 THEN [q |-> BTrim(q), exact |-> r = 0]
    ELSE BDivShortFrom(n, d, k - 1, (r * Base + n[k]) % d,
                       <<(r * Base + n[k]) \div d>> \o q)

\* floor(n / d), and whether the division is exact, for d > 0 whose leading
\* digit is at least Base / 2
BDivMod(n, d) ==
    IF Len(d) = 1 THEN BDivShortFrom(n, d[1], Len(n), 0, <<>>)
    ELSE IF Len(n) < Len(d) THEN [q |-> <<>>, exact |-> n = <<>>]
    ELSE BDivFrom(n, d, Len(n) - Len(d) + 1,
                  BTrim(SubSeq(n, Len(n) - Len(d) + 2, Len(n))), <<>>)

\* 5^k for k <= 13
BPow5(k) == BNat(5^k)

\* ------------------------------------------------------------------------
\* Python floats: IEEE 754 doubles.  A double is 0 or (-1)^s * o * 2^t with
\* o odd and of at most 53 bits; every operation gives the double nearest to
\* the exact result, a tie going to the even neighbour.  Infinities, NaN,
\* subnormal numbers and the sign of zero are not modelled.
\* ------------------------------------------------------------------------

MantBits == 53

Zero == [s |-> 0, o |-> <<>>, t |-> 0]

\* (-1)^s * n * 2^x for n > 0 with at most 53 bits between its first and
\* its last one bit: the zero bits at the end go into the exponent.
Odd(s, n, x) == The({ [s |-> s, o |-> BShr(n, z), t |-> x + z] : z \in {BTz(n)} })

\* The double nearest to (-1)^s * (n + f) * 2^x, where 0 <= f < 1 and
\* sticky tells whether f > 0 (then n has more than 53 bits).  With drop > 0
\* bits too many, r keeps one of them, the rounding bit: an odd r goes to the
\* even number above or below it.
RoundBig(s, n, x, sticky) ==
    IF n = <<>> THEN Zero
    ELSE The({ IF drop <= 0 THEN Odd(s, n, x)
               ELSE The({ Odd(s,
                              IF r[1] % 2 = 0 THEN r
                              ELSE IF \/ sticky
                                      \/ ~BLowZero(n, drop - 1)
                                      \/ (r[1] \div 2) % 2 = 1
                              THEN (IF r[1] = Base - 1 THEN BAddSub(r, <<1>>, 1)
                                    ELSE [r EXCEPT ![1] = @ + 1])
                              ELSE [r EXCEPT ![1] = @ - 1],
                              x + drop - 1)
                          : r \in {BShr(n, drop - 1)} })
               : drop \in {BBitLen(n) - MantBits} })

RECURSIVE Small(_, _, _)
\* (-1)^s * i * 2^x for an integer 0 < i < 2^31, which is a double
Small(s, i, x) ==
    IF i % 2 = 1 THEN [s |-> s, o |-> BNat(i), t |-> x] ELSE Small(s, i \div 2, x + 1)

RECURSIVE DblDiv(_, _, _, _)
\* The double nearest to (-1)^s * (n / d) * 2^x for n >= 0 and d > 0.  A
\* quotient of two digits that is an integer is taken in the integers of the
\* tool, and the zero bits at the end of d go into the exponent; else the
\* quotient is taken to 55 bits or more (n shifted by sh), the divisor
\* shifted to a leading digit of at least Base / 2 (by bits[3]).
DblDiv(s, n, d, x) ==
    IF n = <<>> THEN Zero
    ELSE IF Len(n) = 1 /\ Len(d) = 1 /\ n[1] % d[1] = 0
    THEN Small(s, n[1] \div d[1], x)
    ELSE IF d[1] % 2 = 0 THEN DblDiv(s, n, BShr(d, BTz(d)), x - BTz(d))
    ELSE The({ The({ The({ RoundBig(s, qr.q, x - sh, ~qr.exact)
                           : qr \in {BDivMod(BShl(n, sh + bits[3]), BShl(d, bits[3]))} })
                     : sh \in {(bits[2] + MantBits + 3 - bits[1]
                                + Abs(bits[2] + MantBits + 3 - bits[1])) \div 2} })
               : bits \in { The({ <<BBitLen(n), bd, LimbBits * Len(d) - bd>>
                                   : bd \in {BBitLen(d)} }) } })

\* float(i) for an integer i
R(i) == IF i = 0 THEN Zero ELSE Small(IF i < 0 THEN 1 ELSE 0, Abs(i), 0)

\* a / b for integers a and b # 0
Frac(a, b) ==
    DblDiv(IF (a < 0) # (b < 0) THEN 1 ELSE 0, BNat(Abs(a)), BNat(Abs(b)), 0)

RAbs(x) == [x EXCEPT !.s = 0]

\* -1, 0 or 1 as x < 0, x = 0 or x > 0
RSign(x) == IF x = Zero THEN 0 ELSE IF x.s = 1 THEN -1 ELSE 1

\* x and y have one digit each and exponents at most 16 apart: x + y and
\* x - y are doubles, and integers of the tool at the lower exponent.
SmallPair(x, y) == Len(x.o) = 1 /\ Len(y.o) = 1 /\ Abs(x.t - y.t) <= 16

\* (x + sg * y) / 2^min(x.t, y.t) for such a pair
SmallSum(x, y, sg) ==
    (1 - 2 * x.s) * x.o[1] * Pow2((x.t - y.t + Abs(x.t - y.t)) \div 2)
    + sg * (1 - 2 * y.s) * y.o[1] * Pow2((y.t - x.t + Abs(x.t - y.t)) \div 2)

\* -1, 0 or 1 as x < y, x = y or x > y.  top is the distance between the
\* places above the leading digits of x and of y: of two numbers of one sign
\* whose leading digits overlap, the digits decide, those of the higher
\* exponent shifted to the lower exponent.
RCmp(x, y) ==
    IF x = y THEN 0
    ELSE IF SmallPair(x, y) THEN (IF SmallSum(x, y, -1) < 0 THEN -1 ELSE 1)
    ELSE IF RSign(x) # RSign(y) THEN (IF RSign(x) < RSign(y) THEN -1 ELSE 1)
    ELSE RSign(x) *
         The({ IF top >= LimbBits THEN 1
               ELSE IF top <= -LimbBits THEN -1
               ELSE The({ IF x.t >= y.t THEN BCmp(sh, y.o) ELSE BCmp(x.o, sh)
                          : sh \in {BShl(IF x.t >= y.t THEN x.o ELSE y.o, Abs(x.t - y.t))} })
               : top \in {x.t + LimbBits * Len(x.o) - y.t - LimbBits * Len(y.o)} })

RLt(x, y) == RCmp(x, y) < 0
RLe(x, y) == RCmp(x, y) <= 0
RGt(x, y) == RCmp(x, y) > 0
\* min(x, y)
RMin(x, y) == IF RCmp(y, x) < 0 THEN y ELSE x

\* x + y.  The sum of a small pair is taken in the integers of the tool.
\* top is the distance between the places above the leading digits of x and
\* of y: an operand 60 binary places or more below the other does not change
\* it; else the digits of the operand of the higher exponent are shifted to
\* the lower exponent (sh), and the smaller magnitude is added to or taken
\* from the larger.
RAdd(x, y) ==
    IF x = Zero THEN y
    ELSE IF y = Zero THEN x
    ELSE IF SmallPair(x, y)
    THEN The({ IF v = 0 THEN Zero
               ELSE Small(IF v < 0 THEN 1 ELSE 0, Abs(v),
                          (x.t + y.t - Abs(x.t - y.t)) \div 2)
               : v \in {SmallSum(x, y, 1)} })
    ELSE The({ IF top >= 60 + LimbBits THEN x
               ELSE IF top <= -60 - LimbBits THEN y
               ELSE The({ The({ RoundBig(IF c >= 0 THEN x.s ELSE y.s,
                                         BAddSub(IF c >= 0 THEN ab[1] ELSE ab[2],
                                                 IF c >= 0 THEN ab[2] ELSE ab[1],
                                                 IF x.s = y.s THEN 1 ELSE -1),
                                         IF x.t >= y.t THEN y.t ELSE x.t, FALSE)
                                : c \in {IF x.s = y.s THEN 1 ELSE BCmp(ab[1], ab[2])} })
                          : ab \in { The({ IF x.t >= y.t THEN <<sh, y.o>> ELSE <<x.o, sh>>
                                           : sh \in {BShl(IF x.t >= y.t THEN x.o ELSE y.o,
                                                          Abs(x.t - y.t))} }) } })
               : top \in {x.t + LimbBits * Len(x.o) - y.t - LimbBits * Len(y.o)} })

\* x - y
RSub(x, y) == RAdd(x, IF y = Zero THEN y ELSE [y EXCEPT !.s = 1 - y.s])

\* x * y; the product of two digits is a double.
RMul(x, y) ==
    IF x = Zero \/ y = Zero THEN Zero
    ELSE IF Len(x.o) = 1 /\ Len(y.o) = 1
    THEN [s |-> IF x.s = y.s THEN 0 ELSE 1, o |-> BNat(x.o[1] * y.o[1]), t |-> x.t + y.t]
    ELSE RoundBig(IF x.s = y.s THEN 0 ELSE 1, BMul(x.o, y.o), x.t + y.t, FALSE)

\* x / y for y # 0
RDiv(x, y) == DblDiv(IF x.s = y.s THEN 0 ELSE 1, x.o, y.o, x.t - y.t)

\* Python's round(x, digits) for digits >= 0: the double nearest to the
\* decimal of `digits` places nearest to the exact value of x, a tie between
\* decimals going to the one with an even last digit.  n is
\* |x| * 10^digits * 2^sh; r keeps one bit of the fraction, and an odd r goes
\* to the even number above or below it.
Round(x, digits) ==
    IF x = Zero \/ x.t + digits >= 0 THEN x
    ELSE The({ The({ DblDiv(x.s,
                            BAddSub(r, IF Limb(r, 1) % 2 = 1 THEN <<1>> ELSE <<>>,
                                    IF \/ ~BLowZero(n, -(x.t + digits) - 1)
                                       \/ (Limb(r, 1) \div 2) % 2 = 1
                                    THEN 1 ELSE -1),
                            BPow5(digits), -digits - 1)
                     : r \in {BShr(n, -(x.t + digits) - 1)} })
               : n \in {BMul(x.o, BPow5(digits))} })

RECURSIVE BPow10(_)
\* 10^k
BPow10(k) == IF k <= 9 THEN BNat(10^k) ELSE BMul(BPow10(k - 9), BNat(10^9))


\* Python's None, for the Optional fields of a transfer.
None == [none |-> TRUE]

\* `x is None`, for a value of any type.
IsNone(x) == ToString(x) = ToString(None)

\* `x or 0.0`: None and 0 are both falsy.
OrZero(x) == IF x = None \/ x = Zero THEN Zero ELSE x

\* `x or ""`: None and the empty string are both falsy.
OrEmpty(x) == IF IsNone(x) THEN "" ELSE x

\* `x or 18`: None and 0 are both falsy.
Or18(x) == IF IsNone(x) \/ x = 0 THEN 18 ELSE x


\* ------------------------------------------------------------------------
\* src/utils.py
\* ------------------------------------------------------------------------

\* A Python int of any size (a raw amount in wei has some twenty digits): the
\* sign and the magnitude, base-2^14 limbs, least significant first.
Big(i) == [neg |-> i < 0, mag |-> BNat(Abs(i))]

RECURSIVE BigDigitsFrom(_, _, _)
\* acc followed by the digits k.. of ds, four digits at a time.
BigDigitsFrom(acc, ds, k) ==
    IF k > Len(ds) THEN acc
    ELSE IF k + 3 <= Len(ds)
    THEN The({ BigDigitsFrom(a, ds, k + 4)
               : a \in {BAddSub(BMulSmall(acc, 10000),
                                BNat(ds[k] * 1000 + ds[k + 1] * 100
                                       + ds[k + 2] * 10 + ds[k + 3]), 1)} })
    ELSE The({ BigDigitsFrom(a, ds, k + 1)
               : a \in {BAddSub(BMulSmall(acc, 10), BNat(ds[k]), 1)} })

\* The int written with the decimal digits ds, most significant first, and a
\* minus sign when neg: BigDigits(FALSE, <<1, 2, 0>>) is 120.
BigDigits(neg, ds) ==
    The({ [neg |-> neg /\ m # <<>>, mag |-> m] : m \in {BigDigitsFrom(<<>>, ds, 1)} })

\* The int i * 10 ** k.
BigE(i, k) == [neg |-> i < 0, mag |-> BMul(BNat(Abs(i)), BPow10(k))]

\* -b
BigNeg(b) == IF b.mag = <<>> THEN b ELSE [b EXCEPT !.neg = ~b.neg]

\* floor(n / d) for naturals, d > 0: the long division wants a divisor whose
\* top limb is full, so both are shifted alike.
BDivNat(n, d) ==
    The({ BDivMod(BShl(n, z), BShl(d, z)).q
          : z \in {LimbBits * Len(d) - BBitLen(d)} })

\* The sign of b: -1, 0 or 1.
BigSign(b) == IF b.mag = <<>> THEN 0 ELSE IF b.neg THEN -1 ELSE 1

\* The precision of the default decimal context (getcontext().prec).
DecimalPrec == 28

\* The number of digits by which the natural n exceeds DecimalPrec digits,
\* counted up from k, a number not above it.
RECURSIVE DecimalExcess(_, _)
DecimalExcess(n, k) ==
    IF BCmp(n, BPow10(DecimalPrec + k)) < 0 THEN k ELSE DecimalExcess(n, k + 1)

\* A lower estimate of the excess digits of a natural of `bits` bits: such a
\* natural has more than (bits - 1) * log10(2) digits.
DecimalExcessFrom(bits) ==
    IF ((bits - 1) * 30103) \div 100000 + 1 > DecimalPrec
    THEN ((bits - 1) * 30103) \div 100000 + 1 - DecimalPrec ELSE 0

\* floor(n / p) rounded up by one when the remainder is more than half of p,
\* or is half of p and the quotient is odd (ROUND_HALF_EVEN), times p.
DecimalQuantize(n, p, q) ==
    The({ IF half > 0 \/ (half = 0 /\ q[1] % 2 = 1)
          THEN BMul(BAddSub(q, <<1>>, 1), p) ELSE BMul(q, p)
          : half \in {BCmp(BMulSmall(BAddSub(n, BMul(q, p), -1), 2), p)} })

\* The coefficient of Decimal(n) / Decimal(10 ** decimals), a division in the
\* default context: n rounded to DecimalPrec significant digits, ties to
\* even (dividing by a power of ten only moves the exponent).  A natural of
\* at most 6 limbs is below 2^84 < 10^28 and is kept as it is.
DecimalRound(n) ==
    IF Len(n) <= 6 THEN n
    ELSE The({ IF k = 0 THEN n
               ELSE DecimalQuantize(n, BPow10(k), BDivNat(n, BPow10(k)))
               : k \in {DecimalExcess(n, DecimalExcessFrom(BBitLen(n)))} })

\* format_balance(balance, decimals): raw smallest-unit amount scaled to a
\* human quantity; 0.0 for a missing amount or number of decimals and for a
\* raw amount of 0.  Otherwise float(Decimal(balance) / Decimal(10 **
\* decimals)): the decimal quotient, rounded to 28 significant digits, is
\* converted to the nearest double.
format_balance(balance, decimals) ==
    IF IsNone(balance) \/ IsNone(decimals) THEN Zero
    ELSE IF balance.mag = <<>> THEN Zero
    ELSE DblDiv(IF balance.neg THEN 1 ELSE 0, DecimalRound(balance.mag),
                BPow10(decimals), 0)

\* safe_divide(numerator, denominator, default = 0.0)
safe_divide(numerator, denominator) ==
    IF denominator = Zero THEN Zero ELSE RDiv(numerator, denominator)

\* Mutant of is_approximately_equal: a difference equal to the tolerance is a
\* mismatch.
is_approximately_equal_strict(a, b, tolerance) == RLt(RAbs(RSub(a, b)), tolerance)

\* is_approximately_equal(a, b, tolerance): abs(a - b) <= tolerance
is_approximately_equal(a, b, tolerance) == RLe(RAbs(RSub(a, b)), tolerance)

\* Mutant of calculate_roi: the ratio is returned as a fraction, not as a
\* percentage.
calculate_roi_fraction(invested, current_value) ==
    IF invested = Zero THEN Zero
    ELSE RDiv(RSub(current_value, invested), invested)

\* calculate_roi(invested, current_value)
calculate_roi(invested, current_value) ==
    IF invested = Zero THEN Zero
    ELSE RMul(RDiv(RSub(current_value, invested), invested), R(100))

\* ------------------------------------------------------------------------
\* Inputs: token snapshots, configuration, transfers
\* ------------------------------------------------------------------------

\* A TokenAsset as fetch_balances builds it: current_value is the API's quote
\* of the balance at the current price.
Token(ticker, balance, price) ==
    [ticker |-> ticker, address |-> "0xabc", balance |-> balance,
     current_price |-> price, current_value |-> RMul(balance, price)]

\* The token of the design's worked example: 30 ETH held at $2,500.
ExampleToken == Token("ETH", R(30), R(2500))

\* A sold-out token, a token priced at a third (its values do not
\* round to themselves), and a token held in two units.
GenericTokens ==
    { Token("TKN", R(0), R(4)), Token("TKN", R(1), Frac(1, 3)),
      Token("TKN", R(2), R(4)) }

\* A token whose history is two purchases of different size and unit cost and
\* one sale, in any order (the reordering scenario of the design).
OrderToken == Token("ORD", R(2), R(4))

\* A token whose price and quantities are no binary fractions: 0.3 units
\* held at $0.1, so that sums, differences and products round.
DustToken == Token("DST", Frac(3, 10), Frac(1, 10))

Tokens == GenericTokens \cup {ExampleToken, OrderToken, DustToken}

\* Config.price_tolerance: the default 1%, and a coarse 50%.
Tolerances == {Frac(1, 100), Frac(1, 2)}

Transfer(type, raw, decimals, quote, gas) ==
    [transfer_type |-> type, delta_raw |-> raw, decimals |-> decimals,
     delta_quote |-> quote, gas_quote |-> gas]

\* The worked example: BUY 100 @ $1,000, BUY 50 @ $1,500, SELL 120 @ $2,000,
\* no gas; amounts in wei.
ExampleTransfers ==
    << Transfer("IN", BigE(100, 18), 18, R(100000), Zero),
       Transfer("IN", BigE(50, 18), 18, R(75000), Zero),
       Transfer("OUT", BigE(120, 18), 18, R(240000), Zero) >>

\* <<delta_raw, decimals, delta_quote, gas_quote>> of the generic transfers: a
\* zero amount, a unit with quote value and gas, a negative amount and value
\* (as the client builds native OUT transfers), a zero quote value with gas
\* on a token of 6 decimals, and a fractional quantity with quote value and
\* gas absent.
Shapes ==
    { <<Big(0), 18, R(4), R(1)>>,
      <<BigE(1, 18), 18, R(4), R(1)>>,
      <<BigE(-2, 18), 18, R(-6), Zero>>,
      <<BigE(1, 6), 6, Zero, R(1)>>,
      <<BigE(15, 17), 18, None, None>> }

GenericTransfers ==
    { Transfer(ty, s[1], s[2], s[3], s[4]) : ty \in {"IN", "OUT"}, s \in Shapes }

\* A transfer whose transfer_type is not one of the TransferType literals.
UnrecognizedTransfers == { Transfer("SWAP", BigE(1, 18), 18, R(4), R(1)) }

\* BUY 1 for $4 plus $1 gas, BUY 2 for $8, SELL 2 for $6.
OrderTransfers ==
    { Transfer("IN", BigE(1, 18), 18, R(4), R(1)),
      Transfer("IN", BigE(2, 18), 18, R(8), Zero),
      Transfer("OUT", BigE(2, 18), 18, R(6), Zero) }

\* Receipts of 0.1 and 0.2 units and a transfer out of 0.3 units without
\* quote value, a purchase of 3 units, and a receipt of nothing without quote
\* value: 0.1 + 0.2 is not 0.3 in floating point, and 3 * 0.1 / 3 is not 0.1.
DustTransfers ==
    { Transfer("IN", BigE(1, 17), 18, None, None),
      Transfer("IN", BigE(2, 17), 18, Zero, R(1)),
      Transfer("OUT", BigE(3, 17), 18, Zero, Zero),
      Transfer("IN", BigE(3, 18), 18, None, Zero),
      Transfer("IN", Big(0), 18, None, None) }

\* The transfers a list for `tok` is drawn from.
TransfersFor(tok) ==
    IF tok = ExampleToken
    THEN {ExampleTransfers[k] : k \in 1..Len(ExampleTransfers)}
    ELSE IF tok = OrderToken THEN OrderTransfers
    ELSE IF tok = DustToken THEN DustTransfers
    ELSE GenericTransfers \cup UnrecognizedTransfers

\* ------------------------------------------------------------------------
\* State
\* ------------------------------------------------------------------------

VARIABLES
    token,             \* argument `token`
    price_tolerance,   \* self.config.price_tolerance
    transfers,         \* the part of argument `transfers` iterated so far
    pc,                \* "run": in the loop; "done": returned; "raised"
    buy_queue,         \* local: FIFO queue of lots, oldest first
    realized_pnl,      \* local
    total_invested,    \* local
    positions_opened,  \* local
    positions_closed,  \* local
    warnings,          \* local: the warning list
    avg_cost_basis,    \* local, set after the loop
    unrealized_pnl,    \* local, set after the loop
    result,            \* the returned TokenPNL (None until the return)
    matched,           \* history: one entry per iteration of the matching loop
    heap,              \* several calls: the objects, by reference
    frames,            \* several calls: the locals of each call
    assets,            \* calculate_wallet_pnl: balances_data['assets']
    asset_index,       \* calculate_wallet_pnl: position of `for token in assets`
    fetched,           \* the transfers as the API client collected them
    token_pnls,        \* calculate_wallet_pnl: local token_pnls
    wallet_pnl,        \* the returned WalletPNL (None until the return)
    wpc,               \* calculate_wallet_pnl: "idle", "tokens", "done"
    api_error,         \* history: an error response ended the last token's fetch
    max_pages,         \* self.config.max_pages
    api_pages,         \* the pages of history the API holds for the token
    fpc,               \* fetch_token_transfers: "idle", "initial", "page",
                       \* "next", "erc20", "returned", "raised"
    page_count,        \* fetch_native_transfers: local page_count
    page_number,       \* fetch_erc20_transfers: local page_number
    data,              \* fetch_native_transfers: the page held in `data`
    requests,          \* history: the page requests made and their answers
    remaining_to_sell, \* local of the OUT branch: remaining_sell
    chains,            \* self.config.chains
    wallets,           \* self.config.wallets
    chain_index,       \* calculate_all: position of `for chain in ...`
    wallet_index,      \* calculate_all: position of `for wallet in ...`
    results,           \* calculate_all: local results
    pair_inputs,       \* history: what the call for each pair met
    apc                \* calculate_all: "idle", "pairs", "done"

\* The variables of WalletPNLCalculator.calculate_wallet_pnl.
wallet_vars == <<assets, asset_index, fetched, token_pnls, wallet_pnl, wpc,
                 api_error>>

\* The configuration and the variables of CovalentAPIClient's fetchers.
client_vars == <<max_pages, api_pages, fpc, page_count, page_number, data,
                 requests>>

\* The local of the matching loop that the loop over the transfers does not
\* keep.
match_vars == <<remaining_to_sell>>

\* The configuration and the variables of WalletPNLCalculator.calculate_all.
all_vars == <<chains, wallets, chain_index, wallet_index, results,
              pair_inputs, apc>>

vars == <<token, price_tolerance, transfers, pc, buy_queue, realized_pnl,
          total_invested, positions_opened, positions_closed, warnings,
          avg_cost_basis, unrealized_pnl, result, matched, heap, frames,
          assets, asset_index, fetched, token_pnls, wallet_pnl, wpc,
          api_error, max_pages, api_pages, fpc, page_count, page_number, data,
          requests, remaining_to_sell, chains, wallets, chain_index,
          wallet_index, results, pair_inputs, apc>>

\* ------------------------------------------------------------------------
\* src/pnl_engine.py: PNLCalculator.calculate_token_pnl, the transfer loop
\* ------------------------------------------------------------------------

\* qty = abs(format_balance(t['delta_raw'], t['decimals']))
qty_of(t) == RAbs(format_balance(t.delta_raw, t.decimals))

\* usd_value = abs(t['delta_quote']) if t['delta_quote'] else 0.0
usd_value_of(t) ==
    IF t.delta_quote = None \/ t.delta_quote = Zero THEN Zero
    ELSE RAbs(t.delta_quote)

\* gas_usd = t['gas_quote'] or 0.0
gas_usd_of(t) == OrZero(t.gas_quote)

\* Mutant of SkipsTransfer: no transfer is skipped.
SkipsTransferNever(qty) == FALSE

\* Mutant of SkipsTransfer: only a negative quantity is skipped (`qty < 0`).
SkipsTransferNegativeOnly(qty) == RSign(qty) < 0

\* `if qty <= 0: continue`
SkipsTransfer(qty) == RSign(qty) <= 0

\* `if usd_value == 0 or usd_value is None`: the historical price is missing
MissingPrice(usd_value) == usd_value = Zero

\* Mutant of cost_per_unit_of: gas is capitalised into the fallback cost too.
cost_per_unit_gas_in_fallback(usd_value, gas_usd, qty, current_price) ==
    IF usd_value = Zero THEN RAdd(current_price, RDiv(gas_usd, qty))
    ELSE RDiv(RAdd(usd_value, gas_usd), qty)

\* Mutant of cost_per_unit_of: every lot is carried at the current price.
cost_per_unit_current_price(usd_value, gas_usd, qty, current_price) == current_price

\* Mutant of cost_per_unit_of: gas is left out of the cost basis.
cost_per_unit_without_gas(usd_value, gas_usd, qty, current_price) ==
    IF usd_value = Zero THEN current_price ELSE RDiv(usd_value, qty)

\* The unit cost of a new lot: the current price when the historical price is
\* missing, else the quote value plus gas per unit.
cost_per_unit_of(usd_value, gas_usd, qty, current_price) ==
    IF MissingPrice(usd_value) THEN current_price
    ELSE RDiv(RAdd(usd_value, gas_usd), qty)

\* The lot appended by an IN transfer.  `src` is a history field the code does
\* not have: the 1-based position in `transfers` of the transfer that created
\* the lot.
NewLot(qty, cost_per_unit, gas_usd, i) ==
    [qty |-> qty, cost_per_unit |-> cost_per_unit, gas_usd |-> gas_usd, src |-> i]

\* The locals of the call, as one record.
Locals ==
    [buy_queue |-> buy_queue, realized_pnl |-> realized_pnl,
     total_invested |-> total_invested, positions_opened |-> positions_opened,
     positions_closed |-> positions_closed, warnings |-> warnings,
     matched |-> matched, raised |-> FALSE]

\* Mutant of ProcessIn: total_invested grows by the cost given to the lot, the
\* fallback valuation included, instead of the recorded quote value and gas.
ProcessInInvestsLotCost(st, t, qty, i, current_price) ==
    LET usd_value == usd_value_of(t)
        gas_usd == gas_usd_of(t)
        cost_per_unit == cost_per_unit_of(usd_value, gas_usd, qty, current_price)
    IN  IF ~MissingPrice(usd_value) /\ qty = Zero
        THEN [st EXCEPT !.raised = TRUE]
        ELSE [st EXCEPT
                !.positions_opened = @ + 1,
                !.warnings = IF MissingPrice(usd_value)
                             THEN Append(@, [kind |-> "missing_price", transfer |-> i,
                                             price |-> current_price])
                             ELSE @,
                !.buy_queue = Append(@, NewLot(qty, cost_per_unit, gas_usd, i)),
                !.total_invested = RAdd(@, RMul(qty, cost_per_unit))]

\* The IN branch for transfer number i (1-based) of quantity qty > 0.
ProcessIn(st, t, qty, i, current_price) ==
    LET usd_value == usd_value_of(t)
        gas_usd == gas_usd_of(t)
    IN  IF ~MissingPrice(usd_value) /\ qty = Zero
        THEN [st EXCEPT !.raised = TRUE]     \* ZeroDivisionError at `/ qty`
        ELSE [st EXCEPT
                !.positions_opened = @ + 1,
                !.warnings = IF MissingPrice(usd_value)
                             THEN Append(@, [kind |-> "missing_price", transfer |-> i,
                                             price |-> current_price])
                             ELSE @,
                !.buy_queue =
                    Append(@, NewLot(qty,
                                     cost_per_unit_of(usd_value, gas_usd, qty,
                                                      current_price),
                                     gas_usd, i)),
                !.total_invested = RAdd(@, RAdd(usd_value, gas_usd))]

\* Mutant of MatchIndex: the youngest lot is matched first (LIFO).
MatchIndexLast(q) == Len(q)

\* `position = buy_queue[0]`: the position of the lot the loop matches next.
MatchIndex(q) == 1

\* Mutant of sell_from_this_of: the whole remaining sale is taken from the
\* head lot, whatever the lot holds.
sell_from_this_all(remaining_sell, position) == remaining_sell

\* sell_from_this = min(remaining_sell, position['qty'])
sell_from_this_of(remaining_sell, position) == RMin(remaining_sell, position.qty)

\* Mutant of pnl_this_of: the gas of the sale is not charged to the portion.
pnl_this_gas_ignored(exit_value, entry_cost, gas_portion) == RSub(exit_value, entry_cost)

\* pnl_this = exit_value - entry_cost - gas_portion
pnl_this_of(exit_value, entry_cost, gas_portion) ==
    RSub(RSub(exit_value, entry_cost), gas_portion)

\* Mutant of UpdateQueue: the head lot is popped after every match, also when
\* it still holds quantity.
UpdateQueuePopAlways(q, k, sell_from_this) ==
    Tail([q EXCEPT ![k].qty = RSub(q[k].qty, sell_from_this)])

\* Mutant of UpdateQueue: the partly sold lot keeps its quantity (the
\* decrement is lost); a fully sold lot is still popped.
UpdateQueueNoDecrement(q, k, sell_from_this) ==
    IF RSign(RSub(q[k].qty, sell_from_this)) <= 0 THEN Tail(q) ELSE q

\* Mutant of UpdateQueue: an exhausted head lot stays and the youngest lot is
\* removed instead (`pop()` for `pop(0)`).
UpdateQueueDropTail(q, k, sell_from_this) ==
    LET left == RSub(q[k].qty, sell_from_this)
        q2 == [q EXCEPT ![k].qty = left]
    IN  IF RSign(left) <= 0 THEN SubSeq(q2, 1, Len(q2) - 1) ELSE q2

\* Mutant of UpdateQueue: the cost of a partly sold lot is spread over the
\* quantity it still holds, so its cost_per_unit grows.
UpdateQueueRepricesHead(q, k, sell_from_this) ==
    LET left == RSub(q[k].qty, sell_from_this)
        q2 == [q EXCEPT ![k].qty = left]
    IN  IF RSign(left) <= 0 THEN Tail(q2)
        ELSE [q2 EXCEPT ![k].cost_per_unit = RDiv(RMul(q[k].qty, @), left)]

\* position['qty'] -= sell_from_this; if position['qty'] <= 0: buy_queue.pop(0)
UpdateQueue(q, k, sell_from_this) ==
    The({ IF RSign(left) <= 0 THEN Tail([q EXCEPT ![k].qty = left])
          ELSE [q EXCEPT ![k].qty = left]
          : left \in {RSub(q[k].qty, sell_from_this)} })

\* `while remaining_sell > 0 and buy_queue:` for the sale of sell_qty units for
\* sell_value_usd with sell_gas_usd gas, by transfer number i.  m holds the
\* loop's variables: the queue, remaining_sell, realized_pnl, and the history
\* of matches.
RECURSIVE FIFOMatch(_, _, _, _, _)
FIFOMatch(m, sell_qty, sell_value_usd, sell_gas_usd, i) ==
    IF RSign(m.remaining_sell) > 0 /\ m.buy_queue # <<>>
    THEN LET k == MatchIndex(m.buy_queue)
             position == m.buy_queue[k]
         IN  The({ The({ FIFOMatch(
                             [buy_queue |-> UpdateQueue(m.buy_queue, k, sell_from_this),
                              remaining_sell |-> RSub(m.remaining_sell, sell_from_this),
                              realized_pnl |->
                                  RAdd(m.realized_pnl,
                                       pnl_this_of(exit_value, entry_cost, gas_portion)),
                              matched |-> Append(m.matched,
                                                 [out |-> i, lot |-> position.src,
                                                  qty |-> sell_from_this])],
                             sell_qty, sell_value_usd, sell_gas_usd, i)
                         : entry_cost \in
                               {RMul(sell_from_this, position.cost_per_unit)},
                           exit_value \in
                               {RMul(sell_from_this,
                                     safe_divide(sell_value_usd, sell_qty))},
                           gas_portion \in
                               {RMul(sell_gas_usd,
                                     safe_divide(sell_from_this, sell_qty))} })
                   : sell_from_this \in
                         {sell_from_this_of(m.remaining_sell, position)} })
    ELSE m

\* Mutant of sell_value_usd_of: a sale without a price has no proceeds.
sell_value_usd_no_fallback(usd_value, sell_qty, current_price) == usd_value

\* The proceeds of a sale: the current value of the quantity when the
\* transfer carries no sale price.
sell_value_usd_of(usd_value, sell_qty, current_price) ==
    IF usd_value = Zero THEN RMul(sell_qty, current_price) ELSE usd_value

\* Mutant of SellWithoutBuy: the transfer is skipped silently.
SellWithoutBuySilent(st, i) == st

\* Mutant of SellWithoutBuy: the sale from an empty queue is counted as a
\* closed position.
SellWithoutBuyCounted(st, i) ==
    [st EXCEPT !.warnings = Append(@, [kind |-> "sell_without_buy", transfer |-> i]),
               !.positions_closed = @ + 1]

\* `if not buy_queue:` in the OUT branch: warn and `continue`.
SellWithoutBuy(st, i) ==
    [st EXCEPT !.warnings = Append(@, [kind |-> "sell_without_buy", transfer |-> i])]

\* The OUT branch for transfer number i of quantity sell_qty > 0; m is what
\* the matching loop leaves.
ProcessOut(st, t, sell_qty, i, current_price) ==
    IF st.buy_queue = <<>>
    THEN SellWithoutBuy(st, i)
    ELSE LET usd_value == usd_value_of(t)
             sell_gas_usd == gas_usd_of(t)
             w1 == IF usd_value = Zero
                   THEN Append(st.warnings, [kind |-> "no_sale_price", transfer |-> i])
                   ELSE st.warnings
         IN  The({ [st EXCEPT
                      !.positions_closed = @ + 1,
                      !.buy_queue = m.buy_queue,
                      !.realized_pnl = m.realized_pnl,
                      !.matched = m.matched,
                      !.warnings = IF RSign(m.remaining_sell) > 0
                                   THEN Append(w1, [kind |-> "sold_more_than_bought",
                                                    unmatched |-> m.remaining_sell])
                                   ELSE w1]
                   : m \in {FIFOMatch([buy_queue |-> st.buy_queue,
                                       remaining_sell |-> sell_qty,
                                       realized_pnl |-> st.realized_pnl,
                                       matched |-> st.matched],
                                      sell_qty,
                                      sell_value_usd_of(usd_value, sell_qty,
                                                        current_price),
                                      sell_gas_usd, i)} })

\* One iteration of `for i, t in enumerate(transfers)`; i is 1-based, the
\* `#{i+1}` of the warnings.
ProcessTransfer(st, t, i, current_price) ==
    The({ IF SkipsTransfer(qty) THEN st
          ELSE IF t.transfer_type = "IN" THEN ProcessIn(st, t, qty, i, current_price)
          ELSE IF t.transfer_type = "OUT" THEN ProcessOut(st, t, qty, i, current_price)
          ELSE st
          : qty \in {qty_of(t)} })

\* ------------------------------------------------------------------------
\* src/pnl_engine.py: the results
\* ------------------------------------------------------------------------

\* Mutant of create_pnl_result: total_pnl leaves the unrealized PNL out.
create_pnl_result_total_realized(tok, avg, invested, realized, unrealized, opened, closed, warns) ==
    LET current_value == tok.current_value
        total_pnl == realized
        roi_percent == IF RSign(invested) > 0
                       THEN calculate_roi(invested, RAdd(current_value, realized))
                       ELSE Zero
    IN  [ticker |-> tok.ticker,
         address |-> tok.address,
         current_balance |-> Round(tok.balance, 6),
         current_price |-> Round(tok.current_price, 6),
         current_value |-> Round(current_value, 2),
         avg_cost_basis |-> Round(avg, 6),
         total_invested |-> Round(invested, 2),
         realized_pnl |-> Round(realized, 2),
         unrealized_pnl |-> Round(unrealized, 2),
         total_pnl |-> Round(total_pnl, 2),
         roi_percent |-> Round(roi_percent, 2),
         positions_opened |-> opened,
         positions_closed |-> closed,
         has_warnings |-> Len(warns) > 0,
         warnings |-> warns]

\* PNLCalculator._create_pnl_result
create_pnl_result(tok, avg, invested, realized, unrealized, opened, closed, warns) ==
    The({[ticker |-> tok.ticker,
         address |-> tok.address,
         current_balance |-> Round(tok.balance, 6),
         current_price |-> Round(tok.current_price, 6),
         current_value |-> Round(current_value, 2),
         avg_cost_basis |-> Round(avg, 6),
         total_invested |-> Round(invested, 2),
         realized_pnl |-> Round(realized, 2),
         unrealized_pnl |-> Round(unrealized, 2),
         total_pnl |-> Round(total_pnl, 2),
         roi_percent |-> Round(roi_percent, 2),
         positions_opened |-> opened,
         positions_closed |-> closed,
         has_warnings |-> Len(warns) > 0,
         warnings |-> warns]
         : current_value \in {tok.current_value},
           total_pnl \in {RAdd(realized, unrealized)},
           roi_percent \in
               {IF RSign(invested) > 0
                THEN calculate_roi(invested, RAdd(tok.current_value, realized))
                ELSE Zero} })

\* PNLCalculator._create_empty_pnl_result
create_empty_pnl_result(tok) ==
    [ticker |-> tok.ticker,
     address |-> tok.address,
     current_balance |-> Zero,
     current_price |-> Round(tok.current_price, 6),
     current_value |-> Zero,
     avg_cost_basis |-> Zero,
     total_invested |-> Zero,
     realized_pnl |-> Zero,
     unrealized_pnl |-> Zero,
     total_pnl |-> Zero,
     roi_percent |-> Zero,
     positions_opened |-> 0,
     positions_closed |-> 0,
     has_warnings |-> FALSE,
     warnings |-> <<>>]

\* Mutant of NoTransfersResult: a balance without history is reported as no
\* activity.
NoTransfersResultEmpty(tok) == create_empty_pnl_result(tok)

\* The local `warnings` at the return of the `if not transfers:` branch: a
\* balance without history is reported.
NoTransfersWarnings(tok) ==
    IF RSign(tok.balance) > 0
    THEN <<[kind |-> "no_transfer_history", balance |-> tok.balance]>>
    ELSE <<>>

\* The result of the `if not transfers:` branch.
NoTransfersResult(tok) ==
    IF RSign(tok.balance) > 0
    THEN create_pnl_result(tok, Zero, Zero, Zero, tok.current_value, 0, 0,
                           NoTransfersWarnings(tok))
    ELSE create_empty_pnl_result(tok)

\* The `if not transfers:` branch: the warning list it leaves, the two
\* locals it never binds, and the TokenPNL it returns.
NoTransfersReturn(tok) ==
    [warnings |-> NoTransfersWarnings(tok), avg_cost_basis |-> Zero,
     unrealized_pnl |-> Zero, result |-> NoTransfersResult(tok)]

RECURSIVE SumQty(_)
\* sum(p['qty'] for p in buy_queue)
SumQty(q) ==
    IF q = <<>> THEN Zero
    ELSE RAdd(SumQty(SubSeq(q, 1, Len(q) - 1)), q[Len(q)].qty)

RECURSIVE SumCost(_)
\* sum(p['qty'] * p['cost_per_unit'] for p in buy_queue)
SumCost(q) ==
    IF q = <<>> THEN Zero
    ELSE RAdd(SumCost(SubSeq(q, 1, Len(q) - 1)),
              RMul(q[Len(q)].qty, q[Len(q)].cost_per_unit))

\* `if not is_approximately_equal(remaining_qty, current_balance, tolerance)`
BalanceMismatch(remaining_qty, current_balance, tolerance) ==
    ~is_approximately_equal(remaining_qty, current_balance, tolerance)

\* Mutant of Reconcile: a balance mismatch is not reported.
ReconcileSilent(warns, remaining_qty, current_balance, tolerance_fraction) == warns

\* The balance reconciliation: the warning list after it.
Reconcile(warns, remaining_qty, current_balance, tolerance_fraction) ==
    The({ IF BalanceMismatch(remaining_qty, current_balance, tolerance)
          THEN Append(warns, [kind |-> "balance_mismatch", queue |-> remaining_qty,
                              actual |-> current_balance, diff |-> diff,
                              diff_pct |-> IF RSign(current_balance) > 0
                                           THEN RMul(RDiv(diff, current_balance),
                                                     R(100))
                                           ELSE Zero])
          ELSE warns
          : tolerance \in {RMul(current_balance, tolerance_fraction)},
            diff \in {RAbs(RSub(remaining_qty, current_balance))} })

\* Mutant of avg_cost_basis_of: the remaining cost is divided by the number of
\* lots instead of the remaining quantity.
avg_cost_basis_per_lot(q) == safe_divide(SumCost(q), R(Len(q)))

\* avg_cost_basis = safe_divide(remaining_cost, remaining_qty)
avg_cost_basis_of(q) == safe_divide(SumCost(q), SumQty(q))

\* unrealized_pnl = (current_price - avg_cost_basis) * current_balance
unrealized_pnl_of(current_price, avg, current_balance) ==
    RMul(RSub(current_price, avg), current_balance)

\* Mutant of Finalize: unrealized PNL is computed on the quantity left in the
\* queue instead of the reported balance.
FinalizeQueueQty(st, tok, tolerance_fraction) ==
    LET remaining_qty == SumQty(st.buy_queue)
        warns == Reconcile(st.warnings, remaining_qty, tok.balance, tolerance_fraction)
        avg == avg_cost_basis_of(st.buy_queue)
        unrealized == unrealized_pnl_of(tok.current_price, avg, remaining_qty)
    IN  [warnings |-> warns,
         avg_cost_basis |-> avg,
         unrealized_pnl |-> unrealized,
         result |-> create_pnl_result(tok, avg, st.total_invested, st.realized_pnl,
                                      unrealized, st.positions_opened,
                                      st.positions_closed, warns)]

\* The code after the loop, from the locals st the loop left: the warning
\* list after reconciliation, the two locals it sets, and the returned TokenPNL.
Finalize(st, tok, tolerance_fraction) ==
    The({ The({ [warnings |-> warns,
                 avg_cost_basis |-> avg,
                 unrealized_pnl |-> unrealized,
                 result |-> create_pnl_result(tok, avg, st.total_invested,
                                              st.realized_pnl, unrealized,
                                              st.positions_opened,
                                              st.positions_closed, warns)]
                : unrealized \in
                      {unrealized_pnl_of(tok.current_price, avg, tok.balance)} })
          : warns \in {Reconcile(st.warnings, SumQty(st.buy_queue), tok.balance,
                                 tolerance_fraction)},
            avg \in {avg_cost_basis_of(st.buy_queue)} })

\* The locals as lines 78-82 initialise them.
InitialLocals ==
    [buy_queue |-> <<>>, realized_pnl |-> Zero, total_invested |-> Zero,
     positions_opened |-> 0, positions_closed |-> 0, warnings |-> <<>>,
     matched |-> <<>>, raised |-> FALSE]

RECURSIVE RunLoop(_, _, _, _)
\* The whole loop over trs, from iteration i on.
RunLoop(st, trs, i, current_price) ==
    IF i > Len(trs) \/ st.raised THEN st
    ELSE RunLoop(ProcessTransfer(st, trs[i], i, current_price), trs, i + 1,
                 current_price)

\* PNLCalculator.calculate_token_pnl as a function of its inputs: the returned
\* TokenPNL (None when the call raises).
calculate_token_pnl(tok, trs, tolerance_fraction) ==
    IF trs = <<>> THEN NoTransfersResult(tok)
    ELSE The({ IF st.raised THEN None
               ELSE Finalize(st, tok, tolerance_fraction).result
               : st \in {RunLoop(InitialLocals, trs, 1, tok.current_price)} })

\* ------------------------------------------------------------------------
\* The call as a state machine
\* ------------------------------------------------------------------------

\* No call is in progress on shared objects.
CallsIdle ==
    /\ heap = <<>>
    /\ frames = <<>>

\* The wallet calculation is not running.
WalletIdle ==
    /\ assets = <<>>
    /\ asset_index = 0
    /\ fetched = <<>>
    /\ token_pnls = <<>>
    /\ wallet_pnl = None
    /\ wpc = "idle"
    /\ api_error = FALSE

\* No transfer history is being fetched request by request; max_pages is the
\* least value Config.validate accepts.
ClientIdle ==
    /\ max_pages = 1
    /\ api_pages = 0
    /\ fpc = "idle"
    /\ page_count = 0
    /\ page_number = 0
    /\ data = 0
    /\ requests = <<>>

\* No matching loop is running.
MatchIdle == remaining_to_sell = Zero

\* calculate_all is not running.
AllIdle ==
    /\ chains = <<>>
    /\ wallets = <<>>
    /\ chain_index = 0
    /\ wallet_index = 0
    /\ results = <<>>
    /\ pair_inputs = <<>>
    /\ apc = "idle"

Init ==
    /\ token \in Tokens
    /\ price_tolerance \in Tolerances
    /\ transfers = <<>>
    /\ pc = "run"
    /\ buy_queue = <<>>
    /\ realized_pnl = Zero
    /\ total_invested = Zero
    /\ positions_opened = 0
    /\ positions_closed = 0
    /\ warnings = <<>>
    /\ avg_cost_basis = Zero
    /\ unrealized_pnl = Zero
    /\ result = None
    /\ matched = <<>>
    /\ CallsIdle
    /\ WalletIdle
    /\ ClientIdle
    /\ MatchIdle
    /\ AllIdle

\* `if not transfers:` with an empty list: one of the two early returns.
ReturnNoTransfers ==
    /\ pc = "run"
    /\ transfers = <<>>
    /\ warnings' = warnings \o NoTransfersWarnings(token)
    /\ result' = NoTransfersResult(token)
    /\ pc' = "done"
    /\ UNCHANGED <<token, price_tolerance, transfers, buy_queue, realized_pnl,
                   total_invested, positions_opened, positions_closed,
                   avg_cost_basis, unrealized_pnl, matched, heap, frames>>
    /\ UNCHANGED wallet_vars
    /\ UNCHANGED client_vars
    /\ UNCHANGED match_vars
    /\ UNCHANGED all_vars

\* One iteration of the loop, on the next transfer of the list.
Process ==
    /\ pc = "run"
    /\ Len(transfers) < MaxTransfers
    /\ \E t \in TransfersFor(token) :
          \E st \in {ProcessTransfer(Locals, t, Len(transfers) + 1,
                                     token.current_price)} :
              /\ transfers' = Append(transfers, t)
              /\ buy_queue' = st.buy_queue
              /\ realized_pnl' = st.realized_pnl
              /\ total_invested' = st.total_invested
              /\ positions_opened' = st.positions_opened
              /\ positions_closed' = st.positions_closed
              /\ warnings' = st.warnings
              /\ matched' = st.matched
              /\ pc' = IF st.raised THEN "raised" ELSE "run"
    /\ UNCHANGED <<token, price_tolerance, avg_cost_basis, unrealized_pnl, result,
                   heap, frames>>
    /\ UNCHANGED wallet_vars
    /\ UNCHANGED client_vars
    /\ UNCHANGED match_vars
    /\ UNCHANGED all_vars

\* The end of a non-empty list: reconciliation, unrealized PNL, the result.
Finish ==
    /\ pc = "run"
    /\ transfers # <<>>
    /\ \E f \in {Finalize(Locals, token, price_tolerance)} :
           /\ warnings' = f.warnings
           /\ avg_cost_basis' = f.avg_cost_basis
           /\ unrealized_pnl' = f.unrealized_pnl
           /\ result' = f.result
    /\ pc' = "done"
    /\ UNCHANGED <<token, price_tolerance, transfers, buy_queue, realized_pnl,
                   total_invested, positions_opened, positions_closed, matched,
                   heap, frames>>
    /\ UNCHANGED wallet_vars
    /\ UNCHANGED client_vars
    /\ UNCHANGED match_vars
    /\ UNCHANGED all_vars

Next == ReturnNoTransfers \/ Process \/ Finish

Spec == Init /\ [][Next]_vars

\* ------------------------------------------------------------------------
\* src/pnl_engine.py: the matching loop of one OUT transfer, pass by pass
\* ------------------------------------------------------------------------

\* The most transfers a list holds before the sale whose loop is followed.
MaxQueued == 2

\* The lists of at most n elements of S.
ListsUpTo(S, n) == UNION {[1..k -> S] : k \in 0..n}

\* Mutant of while_pass: the exhausted head lot is never popped.
while_pass_keeps_exhausted(m, sell_qty, sell_value_usd, sell_gas_usd, i) ==
    LET k == MatchIndex(m.buy_queue)
        position == m.buy_queue[k]
        sell_from_this == sell_from_this_of(m.remaining_sell, position)
        entry_cost == RMul(sell_from_this, position.cost_per_unit)
        exit_value == RMul(sell_from_this, safe_divide(sell_value_usd, sell_qty))
        gas_portion == RMul(sell_gas_usd, safe_divide(sell_from_this, sell_qty))
        pnl_this == pnl_this_of(exit_value, entry_cost, gas_portion)
    IN  [buy_queue |-> [m.buy_queue EXCEPT ![k].qty = RSub(@, sell_from_this)],
         remaining_sell |-> RSub(m.remaining_sell, sell_from_this),
         realized_pnl |-> RAdd(m.realized_pnl, pnl_this),
         matched |-> Append(m.matched,
                            [out |-> i, lot |-> position.src, qty |-> sell_from_this])]

\* One pass of `while remaining_sell > 0 and buy_queue:` (lines 148-164) on
\* the loop's variables m, for the sale of sell_qty units by transfer number i.
while_pass(m, sell_qty, sell_value_usd, sell_gas_usd, i) ==
    LET k == MatchIndex(m.buy_queue)
        position == m.buy_queue[k]
        sell_from_this == sell_from_this_of(m.remaining_sell, position)
        entry_cost == RMul(sell_from_this, position.cost_per_unit)
        exit_value == RMul(sell_from_this, safe_divide(sell_value_usd, sell_qty))
        gas_portion == RMul(sell_gas_usd, safe_divide(sell_from_this, sell_qty))
        pnl_this == pnl_this_of(exit_value, entry_cost, gas_portion)
    IN  [buy_queue |-> UpdateQueue(m.buy_queue, k, sell_from_this),
         remaining_sell |-> RSub(m.remaining_sell, sell_from_this),
         realized_pnl |-> RAdd(m.realized_pnl, pnl_this),
         matched |-> Append(m.matched,
                            [out |-> i, lot |-> position.src, qty |-> sell_from_this])]

\* The call is at line 145 of the iteration on its last transfer, an OUT
\* transfer of positive quantity that met a non-empty queue: the transfers
\* before it are processed, the position is counted as closed, the warning
\* for a missing sale price is appended, remaining_sell = sell_qty.
MatchInit ==
    /\ token \in Tokens
    /\ price_tolerance \in Tolerances
    /\ \E earlier \in ListsUpTo(TransfersFor(token), MaxQueued),
          sale \in TransfersFor(token) :
          LET st == RunLoop(InitialLocals, earlier, 1, token.current_price)
              i == Len(earlier) + 1
          IN  /\ ~st.raised
              /\ sale.transfer_type = "OUT"
              /\ ~SkipsTransfer(qty_of(sale))
              /\ st.buy_queue # <<>>
              /\ transfers = Append(earlier, sale)
              /\ buy_queue = st.buy_queue
              /\ realized_pnl = st.realized_pnl
              /\ total_invested = st.total_invested
              /\ positions_opened = st.positions_opened
              /\ positions_closed = st.positions_closed + 1
              /\ warnings = IF usd_value_of(sale) = Zero
                            THEN Append(st.warnings,
                                        [kind |-> "no_sale_price", transfer |-> i])
                            ELSE st.warnings
              /\ matched = st.matched
              /\ remaining_to_sell = qty_of(sale)
    /\ pc = "match"
    /\ avg_cost_basis = Zero
    /\ unrealized_pnl = Zero
    /\ result = None
    /\ CallsIdle
    /\ WalletIdle
    /\ ClientIdle
    /\ AllIdle

\* The loop condition holds: one pass of the while loop.
MatchPass ==
    /\ pc = "match"
    /\ RSign(remaining_to_sell) > 0
    /\ buy_queue # <<>>
    /\ LET i == Len(transfers)
           t == transfers[i]
           sell_qty == qty_of(t)
           m == while_pass([buy_queue |-> buy_queue,
                            remaining_sell |-> remaining_to_sell,
                            realized_pnl |-> realized_pnl,
                            matched |-> matched],
                           sell_qty,
                           sell_value_usd_of(usd_value_of(t), sell_qty,
                                             token.current_price),
                           gas_usd_of(t), i)
       IN  /\ buy_queue' = m.buy_queue
           /\ remaining_to_sell' = m.remaining_sell
           /\ realized_pnl' = m.realized_pnl
           /\ matched' = m.matched
    /\ UNCHANGED <<token, price_tolerance, transfers, pc, total_invested,
                   positions_opened, positions_closed, warnings, avg_cost_basis,
                   unrealized_pnl, result, heap, frames>>
    /\ UNCHANGED wallet_vars
    /\ UNCHANGED client_vars
    /\ UNCHANGED all_vars

\* The loop condition fails: the warning for an unmatched rest (lines
\* 166-171), and the iteration on the transfer is over.
MatchExit ==
    /\ pc = "match"
    /\ ~(RSign(remaining_to_sell) > 0 /\ buy_queue # <<>>)
    /\ warnings' = IF RSign(remaining_to_sell) > 0
                   THEN Append(warnings, [kind |-> "sold_more_than_bought",
                                          unmatched |-> remaining_to_sell])
                   ELSE warnings
    /\ pc' = "run"
    /\ UNCHANGED <<token, price_tolerance, transfers, buy_queue, realized_pnl,
                   total_invested, positions_opened, positions_closed,
                   avg_cost_basis, unrealized_pnl, result, matched, heap, frames>>
    /\ UNCHANGED wallet_vars
    /\ UNCHANGED client_vars
    /\ UNCHANGED match_vars
    /\ UNCHANGED all_vars

\* The sale is the last transfer of the list: after its loop the call
\* finishes.
MatchNext == MatchPass \/ MatchExit \/ Finish

MatchSpec == MatchInit /\ [][MatchNext]_vars

\* The loop condition of line 147: a pass can be made.
PassEnabled == pc = "match" /\ RSign(remaining_to_sell) > 0 /\ buy_queue # <<>>

\* The loop over the transfers is over and the list is not empty.
FinishEnabled == pc = "run" /\ transfers # <<>>

\* The call is one sequential program: it takes its next step as long as it
\* has one.  This is weak fairness of each of the three steps; for MatchPass
\* and Finish it is written out with the step's guard, which is what
\* ENABLED of the step amounts to (both steps change the state).
MatchLive ==
    /\ MatchSpec
    /\ ([]<>~PassEnabled \/ []<><<MatchPass>>_vars)
    /\ WF_vars(MatchExit)
    /\ ([]<>~FinishEnabled \/ []<><<Finish>>_vars)

\* ------------------------------------------------------------------------
\* src/pnl_engine.py: several calls of calculate_token_pnl on one
\* PNLCalculator, on objects the calls share
\* ------------------------------------------------------------------------

\* Python passes dicts and lists by reference.  `heap` holds every object of
\* the program, an object's reference is its position in `heap`, and a new
\* object is appended.  `frames[c]` holds the locals of call c; the calls take
\* their steps in any order.

\* A Python list object.
ListObject(items) == [items |-> items]

\* The Config of the calculator (self.config).
CalculatorConfig == [verbose |-> FALSE, price_tolerance |-> Frac(1, 100)]

\* The token dicts the callers hold.
SharedTokens == << Token("TKN", R(0), R(4)), DustToken >>

\* The transfer dicts the callers hold: a receipt of 3 units without quote
\* value, a sale of 2 units for $6 and a transfer out of 0.3 units without
\* quote value.
SharedTransfers ==
    << Transfer("IN", BigE(3, 18), 18, None, Zero),
       Transfer("OUT", BigE(-2, 18), 18, R(-6), Zero),
       Transfer("OUT", BigE(3, 17), 18, Zero, Zero) >>

\* The objects that exist before any call.
InitialHeap == <<CalculatorConfig>> \o SharedTokens \o SharedTransfers

\* self.config
ConfigRef == Len(<<CalculatorConfig>>)

\* The references of the token dicts and of the transfer dicts.
TokenRefs == {ConfigRef + k : k \in 1..Len(SharedTokens)}
TransferRefs ==
    {ConfigRef + Len(SharedTokens) + k : k \in 1..Len(SharedTransfers)}

\* The transfer lists a call can be given: the same dict can be in several
\* lists, and several times in one.
CallLists == ListsUpTo(TransferRefs, MaxCallTransfers)

\* The locals of a call that has not started.
IdleFrame ==
    [pc |-> "idle", token |-> None, transfers |-> <<>>, i |-> 0,
     current_balance |-> None, current_price |-> None, current_value |-> None,
     warnings |-> None, buy_queue |-> None, realized_pnl |-> None,
     total_invested |-> None, positions_opened |-> None,
     positions_closed |-> None, sell_qty |-> None, sell_value_usd |-> None,
     sell_gas_usd |-> None, remaining_sell |-> None, result |-> None]

CallsInit ==
    /\ heap = InitialHeap
    /\ frames = [c \in 1..MaxCalls |-> IdleFrame]
    /\ token = SharedTokens[1]
    /\ price_tolerance = CalculatorConfig.price_tolerance
    /\ transfers = <<>>
    /\ pc = "done"
    /\ buy_queue = <<>>
    /\ realized_pnl = Zero
    /\ total_invested = Zero
    /\ positions_opened = 0
    /\ positions_closed = 0
    /\ warnings = <<>>
    /\ avg_cost_basis = Zero
    /\ unrealized_pnl = Zero
    /\ result = None
    /\ matched = <<>>
    /\ WalletIdle
    /\ ClientIdle
    /\ MatchIdle
    /\ AllIdle

\* The variables no step of these calls touches.
single_call_vars ==
    <<token, price_tolerance, transfers, pc, buy_queue, realized_pnl,
      total_invested, positions_opened, positions_closed, warnings,
      avg_cost_basis, unrealized_pnl, result, matched>>

\* Mutant of NewWarnings: the warning list is created by the first call and
\* kept for the later ones (as an attribute of the calculator would be).
KeptWarnings(h, fs) ==
    IF \E c \in DOMAIN fs : fs[c].pc # "idle"
    THEN [heap |-> h,
          ref |-> fs[CHOOSE c \in DOMAIN fs : fs[c].pc # "idle"].warnings]
    ELSE [heap |-> Append(h, ListObject(<<>>)), ref |-> Len(h) + 1]

\* `warnings: List[str] = []` (line 57): a new list object.
NewWarnings(h, fs) ==
    [heap |-> Append(h, ListObject(<<>>)), ref |-> Len(h) + 1]

\* Lines 52-82 of call c on the token dict `tok` and the list `trs` of
\* transfer dicts: the locals read from the token, the new warning list, and
\* either the return of the `if not transfers:` branch or the new queue and
\* the zeroed totals.  The calls are numbered in the order they begin.
Call(c) ==
    /\ frames[c].pc = "idle"
    /\ \A b \in 1..(c - 1) : frames[b].pc # "idle"
    /\ \E tok \in TokenRefs, trs \in CallLists :
         \E w \in {NewWarnings(heap, frames)} :
           \E f \in {[IdleFrame EXCEPT
                        !.token = tok, !.transfers = trs,
                        !.current_balance = heap[tok].balance,
                        !.current_price = heap[tok].current_price,
                        !.current_value = heap[tok].current_value,
                        !.warnings = w.ref]} :
             IF trs = <<>>
             THEN IF RSign(f.current_balance) > 0
                  THEN \E warns \in {Append(w.heap[w.ref].items,
                                            [kind |-> "no_transfer_history",
                                             balance |-> f.current_balance])} :
                         /\ heap' = [w.heap EXCEPT ![w.ref].items = warns]
                         /\ frames' =
                              [frames EXCEPT ![c] =
                                 [f EXCEPT
                                    !.pc = "done",
                                    !.result =
                                        create_pnl_result(w.heap[tok], Zero, Zero,
                                                          Zero, f.current_value,
                                                          0, 0, warns)]]
                  ELSE /\ heap' = w.heap
                       /\ frames' =
                            [frames EXCEPT ![c] =
                               [f EXCEPT
                                  !.pc = "done",
                                  !.result = create_empty_pnl_result(w.heap[tok])]]
             ELSE /\ heap' = Append(w.heap, ListObject(<<>>))
                  /\ frames' =
                       [frames EXCEPT ![c] =
                          [f EXCEPT
                             !.pc = "loop", !.i = 1,
                             !.buy_queue = Len(w.heap) + 1,
                             !.realized_pnl = Zero, !.total_invested = Zero,
                             !.positions_opened = 0, !.positions_closed = 0]]
    /\ UNCHANGED single_call_vars
    /\ UNCHANGED wallet_vars
    /\ UNCHANGED client_vars
    /\ UNCHANGED match_vars
    /\ UNCHANGED all_vars

\* Lines 94-118, the IN branch of call c with locals f on the transfer of
\* quantity qty: the warning, the new lot dict appended to the queue, the
\* totals.
BuyStep(c, f, t, qty) ==
    \E usd_value \in {usd_value_of(t)}, gas_usd \in {gas_usd_of(t)} :
       /\ heap' =
            Append([heap EXCEPT
                      ![f.warnings].items =
                          IF MissingPrice(usd_value)
                          THEN Append(@, [kind |-> "missing_price",
                                          transfer |-> f.i,
                                          price |-> f.current_price])
                          ELSE @,
                      ![f.buy_queue].items = Append(@, Len(heap) + 1)],
                   [qty |-> qty,
                    cost_per_unit |-> cost_per_unit_of(usd_value, gas_usd, qty,
                                                       f.current_price),
                    gas_usd |-> gas_usd])
       /\ frames' = [frames EXCEPT
                       ![c].positions_opened = @ + 1,
                       ![c].total_invested = RAdd(@, RAdd(usd_value, gas_usd)),
                       ![c].i = @ + 1]

\* Lines 120-142, the OUT branch up to the matching loop.
SellStep(c, f, t, qty) ==
    IF heap[f.buy_queue].items = <<>>
    THEN /\ heap' = [heap EXCEPT
                       ![f.warnings].items =
                           Append(@, [kind |-> "sell_without_buy",
                                      transfer |-> f.i])]
         /\ frames' = [frames EXCEPT ![c].i = @ + 1]
    ELSE \E usd_value \in {usd_value_of(t)} :
           /\ heap' = [heap EXCEPT
                         ![f.warnings].items =
                             IF usd_value = Zero
                             THEN Append(@, [kind |-> "no_sale_price",
                                             transfer |-> f.i])
                             ELSE @]
           /\ frames' = [frames EXCEPT
                           ![c].positions_closed = @ + 1,
                           ![c].sell_qty = qty,
                           ![c].sell_value_usd =
                               sell_value_usd_of(usd_value, qty, f.current_price),
                           ![c].sell_gas_usd = gas_usd_of(t),
                           ![c].remaining_sell = qty,
                           ![c].pc = "match"]

\* One iteration of `for i, t in enumerate(transfers)` of call c, up to the
\* matching loop.
Iterate(c) ==
    /\ frames[c].pc = "loop"
    /\ frames[c].i <= Len(frames[c].transfers)
    /\ \E f \in {frames[c]} :
         \E t \in {heap[f.transfers[f.i]]} :
           \E qty \in {qty_of(t)} :
             IF SkipsTransfer(qty) \/ t.transfer_type \notin {"IN", "OUT"}
             THEN /\ heap' = heap
                  /\ frames' = [frames EXCEPT ![c].i = @ + 1]
             ELSE IF t.transfer_type = "IN" THEN BuyStep(c, f, t, qty)
             ELSE SellStep(c, f, t, qty)
    /\ UNCHANGED single_call_vars
    /\ UNCHANGED wallet_vars
    /\ UNCHANGED client_vars
    /\ UNCHANGED match_vars
    /\ UNCHANGED all_vars

\* One pass of `while remaining_sell > 0 and buy_queue:` of call c (lines
\* 144-164): `position['qty'] -= sell_from_this` writes the lot dict, and
\* `buy_queue.pop(0)` the queue.
CallMatchPass(c) ==
    /\ frames[c].pc = "match"
    /\ RSign(frames[c].remaining_sell) > 0
    /\ heap[frames[c].buy_queue].items # <<>>
    /\ \E f \in {frames[c]} :
         \E ref \in {heap[f.buy_queue].items[1]} :
           \E sell_from_this \in {sell_from_this_of(f.remaining_sell, heap[ref])} :
             \E entry_cost \in {RMul(sell_from_this, heap[ref].cost_per_unit)},
                exit_value \in {RMul(sell_from_this,
                                     safe_divide(f.sell_value_usd, f.sell_qty))},
                gas_portion \in {RMul(f.sell_gas_usd,
                                      safe_divide(sell_from_this, f.sell_qty))},
                left \in {RSub(heap[ref].qty, sell_from_this)} :
               /\ heap' = [heap EXCEPT
                             ![ref].qty = left,
                             ![f.buy_queue].items =
                                 IF RSign(left) <= 0 THEN Tail(@) ELSE @]
               /\ frames' = [frames EXCEPT
                               ![c].realized_pnl =
                                   RAdd(@, pnl_this_of(exit_value, entry_cost,
                                                       gas_portion)),
                               ![c].remaining_sell = RSub(@, sell_from_this)]
    /\ UNCHANGED single_call_vars
    /\ UNCHANGED wallet_vars
    /\ UNCHANGED client_vars
    /\ UNCHANGED match_vars
    /\ UNCHANGED all_vars

\* The exit of the matching loop of call c (lines 166-171).
CallMatchExit(c) ==
    /\ frames[c].pc = "match"
    /\ ~(RSign(frames[c].remaining_sell) > 0
           /\ heap[frames[c].buy_queue].items # <<>>)
    /\ heap' = [heap EXCEPT
                  ![frames[c].warnings].items =
                      IF RSign(frames[c].remaining_sell) > 0
                      THEN Append(@, [kind |-> "sold_more_than_bought",
                                      unmatched |-> frames[c].remaining_sell])
                      ELSE @]
    /\ frames' = [frames EXCEPT ![c].pc = "loop", ![c].i = @ + 1]
    /\ UNCHANGED single_call_vars
    /\ UNCHANGED wallet_vars
    /\ UNCHANGED client_vars
    /\ UNCHANGED match_vars
    /\ UNCHANGED all_vars

\* The lot dicts in the queue of the call with locals f, oldest first.
QueuedLots(h, f) ==
    [k \in 1..Len(h[f.buy_queue].items) |-> h[h[f.buy_queue].items[k]]]

\* Lines 173-205 of call c: the reconciliation appends to the warning list,
\* and _create_pnl_result reads the token dict again.
Return(c) ==
    /\ frames[c].pc = "loop"
    /\ frames[c].i > Len(frames[c].transfers)
    /\ \E f \in {frames[c]} :
         \E q \in {QueuedLots(heap, f)} :
           \E warns \in {Reconcile(heap[f.warnings].items, SumQty(q),
                                   f.current_balance,
                                   heap[ConfigRef].price_tolerance)},
              avg \in {avg_cost_basis_of(q)} :
             /\ heap' = [heap EXCEPT ![f.warnings].items = warns]
             /\ frames' =
                  [frames EXCEPT
                     ![c].pc = "done",
                     ![c].result =
                         create_pnl_result(
                             heap[f.token], avg, f.total_invested, f.realized_pnl,
                             unrealized_pnl_of(f.current_price, avg,
                                               f.current_balance),
                             f.positions_opened, f.positions_closed, warns)]
    /\ UNCHANGED single_call_vars
    /\ UNCHANGED wallet_vars
    /\ UNCHANGED client_vars
    /\ UNCHANGED match_vars
    /\ UNCHANGED all_vars

NextCalls ==
    \E c \in 1..MaxCalls :
        Call(c) \/ Iterate(c) \/ CallMatchPass(c) \/ CallMatchExit(c) \/ Return(c)

SpecCalls == CallsInit /\ [][NextCalls]_vars

\* ------------------------------------------------------------------------
\* src/api_client.py and src/pnl_calculator.py: one wallet on one chain
\* ------------------------------------------------------------------------

\* The arguments of calculate_wallet_pnl.
Wallet == "0xwallet"
Chain == "eth-mainnet"

\* A datetime: the instant number n.
At(n) == [at |-> n]

\* The wallet address in another letter case, a foreign address, and an
\* absent (None) address.
WalletChecksum == "0xWALLET"
Other == "0xother"
NoAddress == "None"

\* str.lower() on the addresses of the model.
Lower(addr) == IF addr = WalletChecksum THEN Wallet ELSE addr

\* is_address_equal(addr1, addr2): case-insensitive, False for a None address
is_address_equal(addr1, addr2) ==
    IF addr1 = NoAddress \/ addr2 = NoAddress THEN FALSE
    ELSE Lower(addr1) = Lower(addr2)

\* An amount of n wei, as tx.value carries it (None when absent).
Wei(n) == Big(n)

\* A transaction of the transactions endpoint.
NativeTx(tx_hash, value, successful, to_address, from_address, value_quote,
         gas_quote, block_signed_at) ==
    [tx_hash |-> tx_hash, value |-> value, successful |-> successful,
     to_address |-> to_address, from_address |-> from_address,
     value_quote |-> value_quote, gas_quote |-> gas_quote,
     block_signed_at |-> block_signed_at]

\* The TokenTransfer fetch_native_transfers appends for a transaction the
\* wallet takes part in.
native_transfer_of(tx, wallet) ==
    LET is_incoming == is_address_equal(tx.to_address, wallet)
    IN  [tx_hash |-> OrEmpty(tx.tx_hash),
         timestamp |-> tx.block_signed_at,
         transfer_type |-> IF is_incoming THEN "IN" ELSE "OUT",
         delta_raw |-> IF is_incoming THEN tx.value ELSE BigNeg(tx.value),
         delta_quote |-> IF is_incoming THEN OrZero(tx.value_quote)
                         ELSE RSub(Zero, OrZero(tx.value_quote)),
         gas_quote |-> OrZero(tx.gas_quote),
         decimals |-> 18,
         successful |-> tx.successful]

\* `tx.successful is False`: the field is present and false.
IsFalse(b) == ToString(b) = ToString(FALSE)

\* `not tx.transfers`: the list of transfer events is absent or empty.
NoTransfers(ts) == IsNone(ts) \/ ts = <<>>

\* The transaction adds a transfer: it has a positive value, did not fail,
\* and the wallet is its sender or its receiver.
NativeQualifies(tx, wallet) ==
    /\ ~(IsNone(tx.value) \/ BigSign(tx.value) <= 0)
    /\ ~IsFalse(tx.successful)
    /\ \/ is_address_equal(tx.to_address, wallet)
       \/ is_address_equal(tx.from_address, wallet)

RECURSIVE native_transfers_of(_, _)
\* `for tx in data.items:` of fetch_native_transfers: the transfers appended.
native_transfers_of(items, wallet) ==
    IF items = <<>> THEN <<>>
    ELSE IF NativeQualifies(items[1], wallet)
    THEN <<native_transfer_of(items[1], wallet)>>
             \o native_transfers_of(Tail(items), wallet)
    ELSE native_transfers_of(Tail(items), wallet)

\* A transfer event of the ERC20 transfers endpoint.
Erc20Event(tx_hash, to_address, delta, delta_quote, contract_decimals,
           block_signed_at) ==
    [tx_hash |-> tx_hash, to_address |-> to_address, delta |-> delta,
     delta_quote |-> delta_quote, contract_decimals |-> contract_decimals,
     block_signed_at |-> block_signed_at]

\* The TokenTransfer fetch_erc20_transfers appends for the event t of the
\* transaction tx.
erc20_transfer_of(tx, t, wallet) ==
    [tx_hash |-> OrEmpty(t.tx_hash),
     timestamp |-> t.block_signed_at,
     transfer_type |-> IF is_address_equal(t.to_address, wallet) THEN "IN" ELSE "OUT",
     delta_raw |-> t.delta,
     delta_quote |-> OrZero(t.delta_quote),
     gas_quote |-> OrZero(tx.gas_quote),
     decimals |-> Or18(t.contract_decimals),
     successful |-> tx.successful]

RECURSIVE erc20_transfers_of(_, _)
\* `for tx in data.items:` of fetch_erc20_transfers: the transfers appended.
erc20_transfers_of(items, wallet) ==
    IF items = <<>> THEN <<>>
    ELSE LET tx == items[1]
             appended == IF IsFalse(tx.successful) \/ NoTransfers(tx.transfers)
                         THEN <<>>
                         ELSE [k \in 1..Len(tx.transfers) |->
                                  erc20_transfer_of(tx, tx.transfers[k], wallet)]
         IN  appended \o erc20_transfers_of(Tail(items), wallet)

\* A TokenAsset with the `native` flag fetch_balances sets.
Asset(tok, native) == tok @@ [native |-> native]

\* The assets fetch_balances can report: it skips zero balances.
WalletAssets ==
    { Asset(Token("TKN", R(1), Frac(1, 3)), FALSE),
      Asset(Token("ETH", R(2), R(4)), TRUE),
      Asset(Token("DAI", R(3), R(1)), FALSE) }

RECURSIVE SeqsUpTo(_, _)
\* The sequences of at most n different elements of S.
SeqsUpTo(S, n) ==
    IF n = 0 THEN {<<>>}
    ELSE LET shorter == SeqsUpTo(S, n - 1)
         IN  shorter \cup
             UNION { {Append(q, x) : x \in {y \in S : \A k \in 1..Len(q) : q[k] # y}}
                     : q \in shorter }

\* What the transactions endpoint lists for the wallet, newest first, amounts
\* in wei: a sale of 2 units for $6 at instant 2, a purchase of 1 unit for $4
\* with $1 of gas at instant 1, and a receipt of 1 unit without quote value
\* and without block time.
WalletTxs ==
    << NativeTx("0xb", BigE(2, 18), TRUE, Other, Wallet, R(6), None, At(2)),
       NativeTx("0xa", BigE(1, 18), TRUE, Wallet, Other, R(4), R(1), At(1)),
       NativeTx("0xc", BigE(1, 18), TRUE, WalletChecksum, Other, None, R(1), None) >>

\* What the ERC20 endpoint lists for the wallet and a token, newest first: a
\* transaction of instant 2 with two transfer events of a token of 6
\* decimals (2 units received for $6, 1 unit sent without quote value), and
\* a transaction of instant 1 in which 1 unit of a token that reports no
\* decimals is received.
WalletErc20Txs ==
    << [successful |-> TRUE, gas_quote |-> R(1),
        transfers |-> << Erc20Event("0xd", Wallet, BigE(2, 6), R(6), 6, At(2)),
                         Erc20Event("0xd", Other, BigE(1, 6), None, 6, At(2)) >>],
       [successful |-> TRUE, gas_quote |-> None,
        transfers |-> << Erc20Event("0xe", Wallet, BigE(1, 18), R(4), None,
                                    At(1)) >>] >>

\* The TokenTransfer records fetch_native_transfers builds from WalletTxs.
NativeRecords == { native_transfer_of(WalletTxs[k], Wallet) : k \in 1..Len(WalletTxs) }

\* The TokenTransfer records fetch_erc20_transfers builds from
\* WalletErc20Txs.
Erc20Records ==
    { erc20_transfers_of(WalletErc20Txs, Wallet)[k]
      : k \in 1..Len(erc20_transfers_of(WalletErc20Txs, Wallet)) }

\* A history as the pages give it, newest first.  Native: the sale, recorded
\* twice as after a rate-limited next-page request, then the purchase.
\* ERC20: the two events of the later transaction, then the earlier receipt.
PagedHistory(native) ==
    IF native
    THEN native_transfers_of(<<WalletTxs[1], WalletTxs[1], WalletTxs[2]>>, Wallet)
    ELSE erc20_transfers_of(WalletErc20Txs, Wallet)

\* What fetch_native_transfers (native) or fetch_erc20_transfers can return:
\* up to MaxFetched of the records in any order, a record more than once
\* when a page is read again, or the paged history.
FetchedLists(native) ==
    ListsUpTo(IF native THEN NativeRecords ELSE Erc20Records, MaxFetched)
        \cup {PagedHistory(native)}

\* How a fetcher can end without raising: with the transfers it collected,
\* after the last page, or (api_error) after an error response, which makes
\* it return what it has (nothing, when the first request fails).
FetchOutcomes(native) == [collected : FetchedLists(native), api_error : BOOLEAN]

\* sorted() compares the keys of a list of two or more elements; a None among
\* the timestamps makes the comparison raise TypeError.
SortRaises(trs) ==
    Len(trs) >= 2 /\ \E i \in 1..Len(trs) : trs[i].timestamp = None

RECURSIVE InsertByTimestamp(_, _)
\* t put into the sorted list `sorted`, after every element not later than t.
InsertByTimestamp(sorted, t) ==
    IF sorted = <<>> THEN <<t>>
    ELSE IF sorted[Len(sorted)].timestamp.at <= t.timestamp.at THEN Append(sorted, t)
    ELSE Append(InsertByTimestamp(SubSeq(sorted, 1, Len(sorted) - 1), t),
                sorted[Len(sorted)])

RECURSIVE SortPrefix(_, _)
\* The first n elements of trs, sorted.
SortPrefix(trs, n) ==
    IF n = 0 THEN <<>> ELSE InsertByTimestamp(SortPrefix(trs, n - 1), trs[n])

\* Mutant of sorted_by_timestamp: the list is handed on as collected.
sorted_as_collected(trs) == trs

\* sorted(transfers, key=lambda x: x['timestamp']): ascending and stable.
sorted_by_timestamp(trs) == IF Len(trs) <= 1 THEN trs ELSE SortPrefix(trs, Len(trs))

\* CovalentAPIClient.fetch_token_transfers, given what the fetcher chosen by
\* token['native'] returned.
fetch_token_transfers(tok, native_transfers, erc20_transfers) ==
    LET collected == IF tok.native THEN native_transfers ELSE erc20_transfers
    IN  sorted_by_timestamp(collected)

\* Mutant of total_pnl_of: the unrealized total is left out.
total_pnl_realized_only(total_realized_pnl, total_unrealized_pnl) == total_realized_pnl

\* total_pnl = total_realized_pnl + total_unrealized_pnl
total_pnl_of(total_realized_pnl, total_unrealized_pnl) ==
    RAdd(total_realized_pnl, total_unrealized_pnl)

\* Mutant of total_roi_percent_of: the realized total is left out.
total_roi_percent_unrealized_only(total_current_value, total_realized_pnl, wallet_total_invested) ==
    IF RSign(wallet_total_invested) > 0
    THEN RMul(RDiv(RSub(total_current_value, wallet_total_invested), wallet_total_invested),
              R(100))
    ELSE Zero

\* total_roi_percent of _aggregate_wallet_pnl
total_roi_percent_of(total_current_value, total_realized_pnl, wallet_total_invested) ==
    IF RSign(wallet_total_invested) > 0
    THEN RMul(RDiv(RSub(RAdd(total_current_value, total_realized_pnl),
                        wallet_total_invested),
                   wallet_total_invested),
              R(100))
    ELSE Zero

RECURSIVE SumField(_, _)
\* sum(p[field] for p in token_pnls)
SumField(pnls, field) ==
    IF pnls = <<>> THEN Zero
    ELSE RAdd(SumField(SubSeq(pnls, 1, Len(pnls) - 1), field), pnls[Len(pnls)][field])

\* WalletPNLCalculator._aggregate_wallet_pnl
aggregate_wallet_pnl(wallet, chain, pnls) ==
    LET wallet_total_invested == SumField(pnls, "total_invested")
        total_current_value == SumField(pnls, "current_value")
        total_realized_pnl == SumField(pnls, "realized_pnl")
        total_unrealized_pnl == SumField(pnls, "unrealized_pnl")
        total_pnl == total_pnl_of(total_realized_pnl, total_unrealized_pnl)
        total_roi_percent ==
            total_roi_percent_of(total_current_value, total_realized_pnl,
                                 wallet_total_invested)
    IN  [wallet |-> wallet,
         chain |-> chain,
         tokens |-> pnls,
         total_invested |-> Round(wallet_total_invested, 2),
         total_current_value |-> Round(total_current_value, 2),
         total_realized_pnl |-> Round(total_realized_pnl, 2),
         total_unrealized_pnl |-> Round(total_unrealized_pnl, 2),
         total_pnl |-> Round(total_pnl, 2),
         total_roi_percent |-> Round(total_roi_percent, 2)]

\* WalletPNLCalculator._create_empty_wallet_pnl
create_empty_wallet_pnl(wallet, chain) ==
    [wallet |-> wallet,
     chain |-> chain,
     tokens |-> <<>>,
     total_invested |-> Zero,
     total_current_value |-> Zero,
     total_realized_pnl |-> Zero,
     total_unrealized_pnl |-> Zero,
     total_pnl |-> Zero,
     total_roi_percent |-> Zero]

\* The locals calculate_token_pnl ends with on (tok, trs): those of lines
\* 78-82 after the loop; an empty list returns before they are bound, with
\* the warning of line 62 in `warnings` when there is a balance.
FinalLocals(tok, trs) ==
    IF trs = <<>> THEN [InitialLocals EXCEPT !.warnings = NoTransfersWarnings(tok)]
    ELSE RunLoop(InitialLocals, trs, 1, tok.current_price)

\* calculate_wallet_pnl is called: nothing fetched, no engine call made yet.
WalletInit ==
    /\ token = None
    /\ price_tolerance \in Tolerances
    /\ transfers = <<>>
    /\ pc = "idle"
    /\ buy_queue = <<>>
    /\ realized_pnl = Zero
    /\ total_invested = Zero
    /\ positions_opened = 0
    /\ positions_closed = 0
    /\ warnings = <<>>
    /\ avg_cost_basis = Zero
    /\ unrealized_pnl = Zero
    /\ result = None
    /\ matched = <<>>
    /\ CallsIdle
    /\ assets = <<>>
    /\ asset_index = 0
    /\ fetched = <<>>
    /\ token_pnls = <<>>
    /\ wallet_pnl = None
    /\ wpc = "start"
    /\ api_error = FALSE
    /\ ClientIdle
    /\ MatchIdle
    /\ AllIdle

engine_vars == <<token, price_tolerance, transfers, pc, buy_queue, realized_pnl,
                 total_invested, positions_opened, positions_closed, warnings,
                 avg_cost_basis, unrealized_pnl, result, matched, heap, frames>>

\* fetch_balances raises ValueError (resp.error): calculate_wallet_pnl raises.
FetchBalancesFails ==
    /\ wpc = "start"
    /\ wpc' = "raised"
    /\ UNCHANGED <<assets, asset_index, fetched, token_pnls, wallet_pnl, api_error>>
    /\ UNCHANGED engine_vars
    /\ UNCHANGED client_vars
    /\ UNCHANGED match_vars
    /\ UNCHANGED all_vars

\* fetch_balances reports no asset: the empty WalletPNL is returned.
FetchNoAssets ==
    /\ wpc = "start"
    /\ assets' = <<>>
    /\ wallet_pnl' = create_empty_wallet_pnl(Wallet, Chain)
    /\ wpc' = "done"
    /\ UNCHANGED <<asset_index, fetched, token_pnls, api_error>>
    /\ UNCHANGED engine_vars
    /\ UNCHANGED client_vars
    /\ UNCHANGED match_vars
    /\ UNCHANGED all_vars

\* fetch_balances reports assets: the loop over them starts.
FetchBalances ==
    /\ wpc = "start"
    /\ \E a \in SeqsUpTo(WalletAssets, MaxAssets) :
          /\ a # <<>>
          /\ assets' = a
    /\ asset_index' = 1
    /\ wpc' = "tokens"
    /\ UNCHANGED <<fetched, token_pnls, wallet_pnl, api_error>>
    /\ UNCHANGED engine_vars
    /\ UNCHANGED client_vars
    /\ UNCHANGED match_vars
    /\ UNCHANGED all_vars

\* One iteration of `for token in assets` in which fetch_token_transfers
\* raises: the except clause reports the error and the token is left out.
CalcTokenFails ==
    /\ wpc = "tokens"
    /\ asset_index <= Len(assets)
    /\ \E outcome \in FetchOutcomes(assets[asset_index].native) :
          /\ SortRaises(outcome.collected)
          /\ fetched' = outcome.collected
          /\ api_error' = outcome.api_error
    /\ asset_index' = asset_index + 1
    /\ UNCHANGED <<assets, token_pnls, wallet_pnl, wpc>>
    /\ UNCHANGED engine_vars
    /\ UNCHANGED client_vars
    /\ UNCHANGED match_vars
    /\ UNCHANGED all_vars

\* One iteration of `for token in assets`: the transfers are fetched and
\* sorted, the engine is called on them, its TokenPNL is appended.
CalcToken ==
    /\ wpc = "tokens"
    /\ asset_index <= Len(assets)
    /\ \E outcome \in FetchOutcomes(assets[asset_index].native) :
          /\ ~SortRaises(outcome.collected)
          /\ \E tok \in {assets[asset_index]} :
             \E trs \in {fetch_token_transfers(tok, outcome.collected,
                                                outcome.collected)} :
             \E st \in {FinalLocals(tok, trs)} :
             \E f \in {IF trs = <<>> THEN NoTransfersReturn(tok)
                        ELSE Finalize(st, tok, price_tolerance)} :
                 /\ fetched' = outcome.collected
                 /\ api_error' = outcome.api_error
                 /\ token' = tok
                 /\ transfers' = trs
                 /\ buy_queue' = st.buy_queue
                 /\ realized_pnl' = st.realized_pnl
                 /\ total_invested' = st.total_invested
                 /\ positions_opened' = st.positions_opened
                 /\ positions_closed' = st.positions_closed
                 /\ matched' = st.matched
                 /\ warnings' = f.warnings
                 /\ avg_cost_basis' = f.avg_cost_basis
                 /\ unrealized_pnl' = f.unrealized_pnl
                 /\ result' = f.result
                 /\ token_pnls' = Append(token_pnls, f.result)
    /\ pc' = "done"
    /\ asset_index' = asset_index + 1
    /\ UNCHANGED <<heap, frames>>
    /\ UNCHANGED <<price_tolerance, assets, wallet_pnl, wpc>>
    /\ UNCHANGED client_vars
    /\ UNCHANGED match_vars
    /\ UNCHANGED all_vars

\* After the loop: the totals are aggregated and returned.
Aggregate ==
    /\ wpc = "tokens"
    /\ asset_index > Len(assets)
    /\ wallet_pnl' = aggregate_wallet_pnl(Wallet, Chain, token_pnls)
    /\ wpc' = "done"
    /\ UNCHANGED <<assets, asset_index, fetched, token_pnls, api_error>>
    /\ UNCHANGED engine_vars
    /\ UNCHANGED client_vars
    /\ UNCHANGED match_vars
    /\ UNCHANGED all_vars

WalletNext ==
    \/ FetchBalancesFails
    \/ FetchNoAssets
    \/ FetchBalances
    \/ CalcTokenFails
    \/ CalcToken
    \/ Aggregate

WalletSpec == WalletInit /\ [][WalletNext]_vars

\* ------------------------------------------------------------------------
\* src/api_client.py: the transfer history of one token, request by request
\* ------------------------------------------------------------------------

\* Most pages of history the API holds for one wallet and token.
MaxApiPages == 4

\* Largest configured max_pages.
MaxPagesConfigured == 3

\* Most rate-limit answers (429) the API gives during one fetch.
MaxRateLimited == 2

\* data.items of page p of the transactions endpoint (pages are numbered from
\* 1, newest transactions first).  The pages repeat with period three: a
\* purchase and a failed transaction; a sale without gas quote and a
\* transaction without value; a transaction between other addresses, one of
\* value 0, and a purchase without quote value from an unknown sender.
NativeItems(p) ==
    IF p % 3 = 1
    THEN << NativeTx(10 * p + 1, Wei(1), TRUE, WalletChecksum, Other, R(4), R(1),
                     At(40 - 4 * p)),
            NativeTx(10 * p + 2, Wei(3), FALSE, Wallet, Other, R(9), R(1),
                     At(39 - 4 * p)) >>
    ELSE IF p % 3 = 2
    THEN << NativeTx(10 * p + 1, Wei(2), TRUE, Other, Wallet, R(6), None,
                     At(40 - 4 * p)),
            NativeTx(10 * p + 2, None, TRUE, Wallet, Other, None, R(1),
                     At(39 - 4 * p)) >>
    ELSE << NativeTx(10 * p + 1, Wei(5), TRUE, Other, Other, R(5), R(1),
                     At(40 - 4 * p)),
            NativeTx(10 * p + 2, Wei(0), TRUE, Wallet, Other, Zero, R(1),
                     At(39 - 4 * p)),
            NativeTx(10 * p + 3, Wei(1), TRUE, Wallet, NoAddress, None, R(1),
                     At(38 - 4 * p)) >>

\* data.items of page p of the ERC20 transfers endpoint: a transaction with
\* two transfer events (one received, one sent), a failed transaction, a
\* transaction with an empty list of transfer events, and a transaction whose
\* `successful` and `transfers` are absent.
Erc20Items(p) ==
    << [successful |-> TRUE, gas_quote |-> R(1),
        transfers |-> << Erc20Event(10 * p + 1, WalletChecksum, Big(10), R(4), 1,
                                    At(40 - 4 * p)),
                         Erc20Event(10 * p + 2, Other, Big(5), None, 0,
                                    At(39 - 4 * p)) >>],
       [successful |-> FALSE, gas_quote |-> R(1),
        transfers |-> << Erc20Event(10 * p + 3, Wallet, Big(10), R(4), 1,
                                    At(38 - 4 * p)) >>],
       [successful |-> TRUE, gas_quote |-> None, transfers |-> <<>>],
       [successful |-> None, gas_quote |-> None, transfers |-> None] >>

\* The answers to a page request: success, rate limited, another error.
Ok == 200
RateLimit == 429
ServerError == 500
ResponseCodes == {Ok, RateLimit, ServerError}

\* The number of requests in rs answered with `code`.
Answered(rs, code) == Cardinality({i \in 1..Len(rs) : rs[i].code = code})

\* The API may answer the next request with `code`.
MayAnswer(code) == code = RateLimit => Answered(requests, RateLimit) < MaxRateLimited

\* Mutant of after_next_error: a rate-limited next-page request ends the fetch
\* like any other error.
after_next_error_break(error_code) == "break"

\* `if next_resp.error:` of fetch_native_transfers: 429 sleeps and takes
\* `continue` (the while loop starts over with the same `data`), any other
\* error takes `break`.
after_next_error(error_code) ==
    IF error_code = RateLimit THEN "continue" ELSE "break"

\* What does not change while one token's history is fetched.
fetch_frame == <<token, price_tolerance, pc, buy_queue, realized_pnl,
                 total_invested, positions_opened, positions_closed, warnings,
                 avg_cost_basis, unrealized_pnl, result, matched, heap, frames,
                 assets, asset_index, token_pnls, wallet_pnl, wpc, api_error,
                 max_pages, api_pages, remaining_to_sell, chains, wallets,
                 chain_index, wallet_index, results, pair_inputs, apc>>

\* fetch_token_transfers is called for a token: nothing requested yet.  The
\* token's `native` flag selects the fetcher.
FetchInit ==
    /\ token \in WalletAssets
    /\ price_tolerance = Frac(1, 100)
    /\ transfers = <<>>
    /\ pc = "idle"
    /\ buy_queue = <<>>
    /\ realized_pnl = Zero
    /\ total_invested = Zero
    /\ positions_opened = 0
    /\ positions_closed = 0
    /\ warnings = <<>>
    /\ avg_cost_basis = Zero
    /\ unrealized_pnl = Zero
    /\ result = None
    /\ matched = <<>>
    /\ CallsIdle
    /\ WalletIdle
    /\ max_pages \in 1..MaxPagesConfigured
    /\ api_pages \in 1..MaxApiPages
    /\ fpc = IF token.native THEN "initial" ELSE "erc20"
    /\ page_count = 0
    /\ page_number = 0
    /\ data = 0
    /\ requests = <<>>
    /\ MatchIdle
    /\ AllIdle

\* The fetcher returns `collected` and fetch_token_transfers returns it
\* sorted (or raises, when sorted() does).
ReturnCollected(collected) ==
    /\ fetched' = collected
    /\ IF SortRaises(collected)
       THEN fpc' = "raised" /\ transfers' = transfers
       ELSE fpc' = "returned" /\ transfers' = sorted_by_timestamp(collected)

\* fetch_native_transfers, the initial page request: any error returns [].
NativeInitial ==
    /\ fpc = "initial"
    /\ \E code \in ResponseCodes :
          /\ MayAnswer(code)
          /\ requests' = Append(requests, [page |-> 1, code |-> code])
          /\ IF code # Ok
             THEN ReturnCollected(<<>>) /\ UNCHANGED <<data, page_count>>
             ELSE /\ data' = 1
                  /\ page_count' = page_count + 1
                  /\ fpc' = "page"
                  /\ UNCHANGED <<fetched, transfers>>
    /\ UNCHANGED page_number
    /\ UNCHANGED fetch_frame

\* fetch_native_transfers, one pass of the while loop up to the next-page
\* request: the transactions of `data` are appended, and the fetch ends when
\* the page has no successor or max_pages pages were fetched.
NativePage ==
    /\ fpc = "page"
    /\ LET collected == fetched \o native_transfers_of(NativeItems(data), Wallet)
       IN  IF data = api_pages \/ page_count >= max_pages
           THEN ReturnCollected(collected)
           ELSE /\ fetched' = collected
                /\ fpc' = "next"
                /\ transfers' = transfers
    /\ UNCHANGED <<page_count, page_number, data, requests>>
    /\ UNCHANGED fetch_frame

\* fetch_native_transfers, `next_resp = data.next()` and what follows it.
NativeNext ==
    /\ fpc = "next"
    /\ \E code \in ResponseCodes :
          /\ MayAnswer(code)
          /\ requests' = Append(requests, [page |-> data + 1, code |-> code])
          /\ IF code = Ok
             THEN /\ data' = data + 1
                  /\ page_count' = page_count + 1
                  /\ fpc' = "page"
                  /\ UNCHANGED <<fetched, transfers>>
             ELSE IF after_next_error(code) = "continue"
             THEN /\ fpc' = "page"
                  /\ UNCHANGED <<data, page_count, fetched, transfers>>
             ELSE ReturnCollected(fetched) /\ UNCHANGED <<data, page_count>>
    /\ UNCHANGED page_number
    /\ UNCHANGED fetch_frame

\* fetch_erc20_transfers, one pass of the while loop: page page_number is
\* requested; an error ends the fetch with what was collected, a page without
\* successor ends it after its transfers are appended.
Erc20Request ==
    /\ fpc = "erc20"
    /\ \E code \in ResponseCodes :
          /\ MayAnswer(code)
          /\ requests' = Append(requests, [page |-> page_number + 1, code |-> code])
          /\ IF code # Ok
             THEN ReturnCollected(fetched) /\ UNCHANGED page_number
             ELSE LET collected ==
                          fetched \o erc20_transfers_of(Erc20Items(page_number + 1),
                                                        Wallet)
                  IN  IF page_number + 1 >= api_pages
                      THEN ReturnCollected(collected) /\ UNCHANGED page_number
                      ELSE /\ fetched' = collected
                           /\ page_number' = page_number + 1
                           /\ UNCHANGED <<fpc, transfers>>
    /\ UNCHANGED <<page_count, data>>
    /\ UNCHANGED fetch_frame

FetchNext == NativeInitial \/ NativePage \/ NativeNext \/ Erc20Request

FetchSpec == FetchInit /\ [][FetchNext]_vars

\* The client is one sequential program: as long as its fetch goes on it
\* takes its next step, the pass of the while loop that leads to the
\* next-page request and then that request.
FetchLive ==
    /\ FetchSpec
    /\ WF_vars(fpc' = "next" /\ NativePage)
    /\ WF_vars(fpc' = "page" /\ NativeNext)

\* ------------------------------------------------------------------------
\* What the design says of a transfer, computed from the transfer alone
\* ------------------------------------------------------------------------

RECURSIVE RSum(_)
\* sum(xs): the left fold of + over a sequence of floats, from 0.
RSum(xs) ==
    IF xs = <<>> THEN Zero
    ELSE RAdd(RSum(SubSeq(xs, 1, Len(xs) - 1)), xs[Len(xs)])

\* The rounding error allowed between a total the code accumulates in
\* floating point and the same total recomputed from the transfers: a
\* millionth of a dollar or of a unit.
Eps == Frac(1, 1000000)

\* a and b are equal up to the rounding of floating-point arithmetic.
Near(a, b) == RLe(RAbs(RSub(a, b)), Eps)

\* a <= b up to the rounding of floating-point arithmetic.
LeNear(a, b) == RLe(a, RAdd(b, Eps))

\* Every transfer a list can hold.
InputTransfers ==
    GenericTransfers \cup UnrecognizedTransfers \cup OrderTransfers
        \cup DustTransfers \cup {ExampleTransfers[k] : k \in 1..Len(ExampleTransfers)}

\* qty = abs(format_balance(delta_raw, decimals)) of every input transfer,
\* tabulated.
QtyTable == [t \in InputTransfers |-> qty_of(t)]

\* The quantity of the transfer t.
ExpQty(t) == QtyTable[t]

\* |delta_quote|, zero when absent
ExpQuote(t) == IF t.delta_quote = None THEN Zero ELSE RAbs(t.delta_quote)

\* gas_quote, zero when absent
ExpGas(t) == IF t.gas_quote = None THEN Zero ELSE t.gas_quote

\* Transfer number i of the list created a lot.
IsLot(i) == transfers[i].transfer_type = "IN" /\ RSign(ExpQty(transfers[i])) > 0

\* The unit cost of the lot an IN transfer creates (section 4.1 step 3).
ExpLotCost(t) ==
    IF ExpQuote(t) = Zero THEN token.current_price
    ELSE RDiv(RAdd(ExpQuote(t), ExpGas(t)), ExpQty(t))

\* The proceeds of an OUT transfer (section 4.1 step 4).
ExpProceeds(t) ==
    IF ExpQuote(t) = Zero THEN RMul(ExpQty(t), token.current_price) ELSE ExpQuote(t)

\* exit_value - entry_cost - gas_portion of the matched portion m.
PortionPnl(m) ==
    LET t == transfers[m.out]
        exit_value == RMul(m.qty, RDiv(ExpProceeds(t), ExpQty(t)))
        entry_cost == RMul(m.qty, ExpLotCost(transfers[m.lot]))
        gas_portion == RMul(ExpGas(t), RDiv(m.qty, ExpQty(t)))
    IN  RSub(RSub(exit_value, entry_cost), gas_portion)

RECURSIVE LotLeftFrom(_, _, _, _)
\* x less the quantities that the matched portions k..n took from lot j,
\* subtracted one by one as `position['qty'] -= sell_from_this` does.
LotLeftFrom(x, j, k, n) ==
    IF k > n THEN x
    ELSE LotLeftFrom(IF matched[k].lot = j THEN RSub(x, matched[k].qty) ELSE x,
                     j, k + 1, n)

\* The quantity lot j holds after the first n matched portions.
LotLeft(j, n) == LotLeftFrom(ExpQty(transfers[j]), j, 1, n)

RECURSIVE SellLeftFrom(_, _, _)
\* x less the quantities of the matched portions from number k on that sale i
\* took, subtracted one by one as `remaining_sell -= sell_from_this` does.
SellLeftFrom(x, i, k) ==
    IF k > Len(matched) THEN x
    ELSE SellLeftFrom(IF matched[k].out = i THEN RSub(x, matched[k].qty) ELSE x,
                      i, k + 1)

\* The quantity of OUT transfer number i that no lot matched.
SellLeft(i) == SellLeftFrom(ExpQty(transfers[i]), i, 1)

\* The total quantity in a queue.
QueueQty(q) == RSum([k \in 1..Len(q) |-> q[k].qty])

\* ------------------------------------------------------------------------
\* Claims
\* ------------------------------------------------------------------------

\* Every matched portion takes from a lot created by an earlier IN transfer,
\* never more than the lot still holds, and only when every older lot is
\* already fully consumed.
OldestFirst ==
    \A k \in 1..Len(matched) :
        LET m == matched[k]
        IN  /\ m.lot < m.out
            /\ IsLot(m.lot)
            /\ transfers[m.out].transfer_type = "OUT"
            /\ RSign(m.qty) > 0
            /\ RSign(LotLeft(m.lot, k)) >= 0
            /\ \A j \in 1..(m.lot - 1) :
                   IsLot(j) => RSign(LotLeft(j, k - 1)) = 0

\* C1: at every point of the loop the accumulated realized PNL is the sum over
\* the matched portions of exit_value - entry_cost - gas_portion, and the
\* portions were taken strictly oldest lot first.
C1_RealizedPnlOldestFirst ==
    /\ realized_pnl = RSum([k \in 1..Len(matched) |-> PortionPnl(matched[k])])
    /\ OldestFirst

\* C1 witness: one OUT transfer consumed two lots of different unit cost.
C1_Witness ==
    \E k \in 1..(Len(matched) - 1) :
        /\ matched[k].out = matched[k + 1].out
        /\ matched[k].lot < matched[k + 1].lot
        /\ ExpLotCost(transfers[matched[k].lot])
               # ExpLotCost(transfers[matched[k + 1].lot])

\* The quantity bought so far less the quantity matched by sales so far.
BoughtLessMatched ==
    RSub(RSum([i \in 1..Len(transfers) |->
                 IF IsLot(i) THEN ExpQty(transfers[i]) ELSE Zero]),
         RSum([k \in 1..Len(matched) |-> matched[k].qty]))

C3_ZeroBalanceAllZero ==
    (pc = "done" /\ token.balance = Zero) =>
        /\ result.ticker = token.ticker
        /\ result.current_price = token.current_price
        /\ result.realized_pnl = Zero
        /\ result.unrealized_pnl = Zero
        /\ result.total_pnl = Zero
        /\ result.total_invested = Zero
        /\ result.avg_cost_basis = Zero
        /\ result.positions_opened = 0
        /\ result.positions_closed = 0
        /\ result.warnings = <<>>
        /\ ~result.has_warnings

\* C4: the worked example.  BUY 100 for 100,000, BUY 50 for 75,000, SELL 120
\* for 240,000, no gas, 30 units held at 2,500: the sale takes 100 units of
\* lot 1 and 20 of lot 2, realized PNL is 110,000, one lot of 30 units at
\* 1,500 remains, unrealized PNL is 30,000 and total PNL 140,000.
C4_WorkedExample ==
    (token = ExampleToken /\ transfers = ExampleTransfers) =>
        /\ matched = << [out |-> 3, lot |-> 1, qty |-> R(100)],
                        [out |-> 3, lot |-> 2, qty |-> R(20)] >>
        /\ realized_pnl = R(110000)
        /\ Len(buy_queue) = 1
        /\ buy_queue[1].qty = R(30)
        /\ buy_queue[1].cost_per_unit = R(1500)
        /\ pc = "done" =>
              /\ unrealized_pnl = R(30000)
              /\ result.realized_pnl = R(110000)
              /\ result.unrealized_pnl = R(30000)
              /\ result.total_pnl = R(140000)
              /\ result.avg_cost_basis = R(1500)

\* C4 witness: the call on the worked example has returned.
C4_Witness == token = ExampleToken /\ transfers = ExampleTransfers /\ pc = "done"

\* The step is one iteration of the loop, on transfer t.
Iterates(t) ==
    /\ Len(transfers') = Len(transfers) + 1
    /\ transfers'[Len(transfers')] = t

\* The step appends exactly one warning, of kind `kind`.
AppendsOneWarning(kind) ==
    /\ Len(warnings') = Len(warnings) + 1
    /\ SubSeq(warnings', 1, Len(warnings)) = warnings
    /\ warnings'[Len(warnings')].kind = kind

\* C5: an OUT transfer of positive quantity that meets an empty queue leaves
\* realized_pnl and the queue as they are, appends exactly one warning, and
\* the call goes on without raising.
C5_SellWithoutBuy ==
    [][\A t \in TransfersFor(token) :
          (/\ Iterates(t)
           /\ t.transfer_type = "OUT"
           /\ RSign(ExpQty(t)) > 0
           /\ buy_queue = <<>>)
          => /\ realized_pnl' = realized_pnl
             /\ buy_queue' = <<>>
             /\ AppendsOneWarning("sell_without_buy")
             /\ warnings'[Len(warnings')].transfer = Len(transfers')
             /\ pc' = "run"]_vars

\* C5 witness: earlier sales emptied the queue and the last transfer, a sale,
\* met it empty.
C5_Witness ==
    /\ pc = "run"
    /\ matched # <<>>
    /\ buy_queue = <<>>
    /\ transfers # <<>>
    /\ transfers[Len(transfers)].transfer_type = "OUT"
    /\ warnings # <<>>
    /\ warnings[Len(warnings)] =
           [kind |-> "sell_without_buy", transfer |-> Len(transfers)]

\* C6: an IN transfer of positive quantity whose quote value is zero or absent
\* appends a lot at the current price, gas not added, and exactly one warning,
\* which names the transfer.
C6_MissingPriceFallback ==
    [][\A t \in TransfersFor(token) :
          (/\ Iterates(t)
           /\ t.transfer_type = "IN"
           /\ RSign(ExpQty(t)) > 0
           /\ (t.delta_quote = None \/ t.delta_quote = Zero))
          => /\ Len(buy_queue') = Len(buy_queue) + 1
             /\ SubSeq(buy_queue', 1, Len(buy_queue)) = buy_queue
             /\ buy_queue'[Len(buy_queue')].qty = ExpQty(t)
             /\ buy_queue'[Len(buy_queue')].cost_per_unit = token.current_price
             /\ AppendsOneWarning("missing_price")
             /\ warnings'[Len(warnings')].transfer = Len(transfers')
             /\ pc' = "run"]_vars

\* C6 witness: the queue holds a lot bought with a zero quote value and paid
\* gas, and a lot bought with no quote value at all, both at the current price.
C6_Witness ==
    \E a, b \in 1..Len(buy_queue) :
        /\ transfers[buy_queue[a].src].delta_quote = Zero
        /\ RSign(ExpGas(transfers[buy_queue[a].src])) > 0
        /\ transfers[buy_queue[b].src].delta_quote = None
        /\ buy_queue[a].cost_per_unit = token.current_price
        /\ buy_queue[b].cost_per_unit = token.current_price
        /\ \E w \in 1..Len(warnings) :
               warnings[w] = [kind |-> "missing_price",
                              transfer |-> buy_queue[a].src,
                              price |-> token.current_price]

\* The number of warnings of kind `kind` in the list ws.
CountKind(ws, kind) == Cardinality({w \in 1..Len(ws) : ws[w].kind = kind})

\* The total cost of the lots in a queue.
QueueCost(q) == RSum([k \in 1..Len(q) |-> RMul(q[k].qty, q[k].cost_per_unit)])

\* What C7 says of a step that sells t against the current queue: the queue
\* ends empty, one `sold more than bought` warning is added, and the realized
\* PNL added is that of the quantity the queue held.
SoldMoreOutcome(t) ==
    LET held == QueueQty(buy_queue)
        share == RDiv(held, ExpQty(t))
    IN  /\ buy_queue' = <<>>
        /\ CountKind(warnings', "sold_more_than_bought")
               = CountKind(warnings, "sold_more_than_bought") + 1
        /\ warnings'[Len(warnings')] =
               [kind |-> "sold_more_than_bought",
                unmatched |-> RSub(ExpQty(t), held)]
        /\ Near(RSub(realized_pnl', realized_pnl),
                RSub(RSub(RMul(ExpProceeds(t), share), QueueCost(buy_queue)),
                     RMul(ExpGas(t), share)))
        /\ pc' = "run"

\* C7 as stated: every OUT transfer whose quantity exceeds the total quantity
\* in the queue, an empty queue included, has the sold-more outcome.
C7_SoldMoreAnyQueue ==
    [][\A t \in TransfersFor(token) :
          (/\ Iterates(t)
           /\ t.transfer_type = "OUT"
           /\ RGt(ExpQty(t), QueueQty(buy_queue)))
          => SoldMoreOutcome(t)]_vars

\* C7 amended: an OUT transfer that meets a non-empty queue holding less than
\* its quantity empties the queue, adds exactly one `sold more than bought`
\* warning, and adds the realized PNL of the matched quantity only.
C7_SoldMoreThanBought ==
    [][\A t \in TransfersFor(token) :
          (/\ Iterates(t)
           /\ t.transfer_type = "OUT"
           /\ buy_queue # <<>>
           /\ RGt(ExpQty(t), QueueQty(buy_queue)))
          => SoldMoreOutcome(t)]_vars

\* C7 witness: the last transfer sold more than the two lots in the queue held.
C7_Witness ==
    /\ Len(matched) >= 2
    /\ matched[Len(matched)].out = Len(transfers)
    /\ matched[Len(matched) - 1].out = Len(transfers)
    /\ matched[Len(matched)].lot # matched[Len(matched) - 1].lot
    /\ buy_queue = <<>>
    /\ warnings # <<>>
    /\ warnings[Len(warnings)].kind = "sold_more_than_bought"

\* C8: after the loop a balance-mismatch warning is appended exactly when
\* |remaining_qty - balance| > balance * price_tolerance, and the TokenPNL is
\* returned either way.
C8_BalanceMismatchWarning ==
    (pc = "done" /\ transfers # <<>>) =>
        /\ result # None
        /\ result.warnings = warnings
        /\ CountKind(warnings, "balance_mismatch") =
               IF RGt(RAbs(RSub(QueueQty(buy_queue), token.balance)),
                      RMul(token.balance, price_tolerance))
               THEN 1 ELSE 0

\* C8 witness: the difference equals a positive tolerance and no warning was
\* added.
C8_Witness ==
    /\ pc = "done"
    /\ transfers # <<>>
    /\ RSign(RMul(token.balance, price_tolerance)) > 0
    /\ RAbs(RSub(QueueQty(buy_queue), token.balance))
           = RMul(token.balance, price_tolerance)
    /\ CountKind(result.warnings, "balance_mismatch") = 0

\* The average unit cost of the lots in a queue, 0 for an empty queue.
ExpAvgCost(q) == IF q = <<>> THEN Zero ELSE RDiv(QueueCost(q), QueueQty(q))

\* C9: for a non-empty transfer list, unrealized PNL is (current_price -
\* avg_cost_basis) * the reported balance, with avg_cost_basis the
\* quantity-weighted mean cost of the remaining lots, 0 for an empty queue.
C9_UnrealizedOnReportedBalance ==
    (pc = "done" /\ transfers # <<>>) =>
        /\ avg_cost_basis = ExpAvgCost(buy_queue)
        /\ unrealized_pnl =
               RMul(RSub(token.current_price, ExpAvgCost(buy_queue)), token.balance)
        /\ result.avg_cost_basis = Round(avg_cost_basis, 6)
        /\ result.unrealized_pnl = Round(unrealized_pnl, 2)

\* C9 witness: lots remain, at a mean cost other than the current price, and
\* their quantity differs from the positive reported balance.
C9_Witness ==
    /\ pc = "done"
    /\ Len(buy_queue) >= 2
    /\ QueueQty(buy_queue) # token.balance
    /\ RSign(token.balance) > 0
    /\ avg_cost_basis # token.current_price
    /\ unrealized_pnl # Zero

\* C10: an empty transfer list and a positive balance give realized PNL 0,
\* unrealized PNL the token's current value (to the cent, as every returned
\* monetary field), zero cost basis and investment, no positions, one warning.
C10_NoTransfersWithBalance ==
    (pc = "done" /\ transfers = <<>> /\ RSign(token.balance) > 0) =>
        /\ result.realized_pnl = Zero
        /\ result.unrealized_pnl = Round(token.current_value, 2)
        /\ result.avg_cost_basis = Zero
        /\ result.total_invested = Zero
        /\ result.positions_opened = 0
        /\ result.positions_closed = 0
        /\ Len(result.warnings) = 1
        /\ result.has_warnings

\* C10 witness: such a call has returned, for a token whose value is not a
\* whole number of cents.
C10_Witness ==
    /\ pc = "done"
    /\ transfers = <<>>
    /\ RSign(token.balance) > 0
    /\ Round(token.current_value, 2) # token.current_value

\* The unrounded unrealized PNL handed to _create_pnl_result by the return the
\* call took: the local of line 194, or current_value in the no-transfer branch.
UnroundedUnrealized ==
    IF transfers = <<>>
    THEN (IF RSign(token.balance) > 0 THEN token.current_value ELSE Zero)
    ELSE unrealized_pnl

\* C11 as stated: in every returned TokenPNL the total_pnl field is the sum of
\* the realized_pnl field and the unrealized_pnl field.
C11_TotalIsSumOfFields ==
    pc = "done" =>
        Near(result.total_pnl, RAdd(result.realized_pnl, result.unrealized_pnl))

\* C11 amended: the total_pnl field is the sum of the unrounded realized and
\* unrealized PNL rounded once to 2 places; it is within one cent of the sum of
\* the two separately rounded fields.
C11_TotalPnlRoundedOnce ==
    pc = "done" =>
        /\ result.total_pnl = Round(RAdd(realized_pnl, UnroundedUnrealized), 2)
        /\ RLe(RAbs(RSub(result.total_pnl,
                         RAdd(result.realized_pnl, result.unrealized_pnl))),
               RAdd(Frac(1, 100), Eps))

\* C11 witness: a returned result whose total_pnl field is one cent away from
\* the sum of its realized_pnl and unrealized_pnl fields.
C11_Witness ==
    /\ pc = "done"
    /\ realized_pnl # Zero
    /\ unrealized_pnl # Zero
    /\ Near(RAbs(RSub(result.total_pnl,
                      RAdd(result.realized_pnl, result.unrealized_pnl))),
            Frac(1, 100))

\* ROI as section 4.2 gives it, from unrounded quantities.
ExpRoi(current_value, realized, invested) ==
    IF RSign(invested) > 0
    THEN RMul(RDiv(RSub(RAdd(current_value, realized), invested), invested), R(100))
    ELSE Zero

\* C12: the roi_percent field is ((current_value + realized_pnl -
\* total_invested) / total_invested) * 100 rounded to 2 places when
\* total_invested > 0, and 0 otherwise, the no-transfer results included.
C12_RoiPercent ==
    pc = "done" =>
        /\ result.roi_percent =
               Round(ExpRoi(token.current_value, realized_pnl, total_invested), 2)
        /\ ~RSign(total_invested) > 0 => result.roi_percent = Zero

\* C12 witness: money was invested, part was sold at a result, and the ROI is
\* a percentage that is not a whole number of hundredths before rounding.
C12_Witness ==
    /\ pc = "done"
    /\ RSign(total_invested) > 0
    /\ realized_pnl # Zero
    /\ result.roi_percent # Zero
    /\ result.roi_percent # ExpRoi(token.current_value, realized_pnl, total_invested)

\* C13: on the worked example (175,000 invested, total PNL 140,000) the
\* reported ROI is 80%, total PNL over total invested.
C13_ExampleRoi80 ==
    (pc = "done" /\ token = ExampleToken /\ transfers = ExampleTransfers) =>
        /\ result.total_invested = R(175000)
        /\ result.total_pnl = R(140000)
        /\ result.roi_percent = R(80)

\* Every transfer consumed so far has one of the two TransferType values.
ValidInput ==
    \A i \in 1..Len(transfers) : transfers[i].transfer_type \in {"IN", "OUT"}

\* C16: a call whose list holds a transfer of unrecognized transfer_type fails
\* at that transfer; it never goes on to the next transfer or to a result.
C16_UnrecognizedTypeFails == ~ValidInput => pc = "raised"

\* The quantity of OUT transfer number i matched against lots.
MatchedQty(i) ==
    RSum([k \in 1..Len(matched) |->
             IF matched[k].out = i THEN matched[k].qty ELSE Zero])

\* The warning w is in the list ws.
HasWarning(ws, w) == \E k \in 1..Len(ws) : ws[k] = w

\* IN transfer number i: a zero or missing quote value is on record.
BuyAnomalyRecorded(i) ==
    ExpQuote(transfers[i]) = Zero =>
        HasWarning(warnings, [kind |-> "missing_price", transfer |-> i,
                              price |-> token.current_price])

\* OUT transfer number i of positive quantity: either it met an empty queue
\* and only that is on record, or its missing sale price and its unmatched
\* quantity are on record.
SellAnomalyRecorded(i) ==
    IF MatchedQty(i) = Zero
    THEN /\ HasWarning(warnings, [kind |-> "sell_without_buy", transfer |-> i])
         /\ ~HasWarning(warnings, [kind |-> "no_sale_price", transfer |-> i])
    ELSE /\ ~HasWarning(warnings, [kind |-> "sell_without_buy", transfer |-> i])
         /\ (ExpQuote(transfers[i]) = Zero) =
                HasWarning(warnings, [kind |-> "no_sale_price", transfer |-> i])
         /\ RSign(SellLeft(i)) > 0 =>
                HasWarning(warnings, [kind |-> "sold_more_than_bought",
                                      unmatched |-> SellLeft(i)])

\* Transfer number i of quantity 0 left no warning.
SkippedSilently(i) ==
    /\ ~HasWarning(warnings, [kind |-> "missing_price", transfer |-> i,
                              price |-> token.current_price])
    /\ ~HasWarning(warnings, [kind |-> "no_sale_price", transfer |-> i])
    /\ ~HasWarning(warnings, [kind |-> "sell_without_buy", transfer |-> i])

\* OUT transfer number i arrived at a queue without lots: every lot created
\* before it was used up by the sales before it.
MetEmptyQueue(i) ==
    \A j \in 1..(i - 1) :
        IsLot(j) =>
            RSign(LotLeft(j, Cardinality({k \in 1..Len(matched) :
                                            matched[k].out < i}))) = 0

\* The call returned what the design promises: a TokenPNL that carries the
\* warnings, a balance mismatch and a balance without history included.
ReturnsWarnings ==
    pc = "done" =>
        /\ result # None
        /\ result.has_warnings = (result.warnings # <<>>)
        /\ transfers # <<>> =>
               /\ result.warnings = warnings
               /\ RGt(RAbs(RSub(QueueQty(buy_queue), token.balance)),
                      RMul(token.balance, price_tolerance))
                      => CountKind(result.warnings, "balance_mismatch") = 1
        /\ (transfers = <<>> /\ RSign(token.balance) > 0) =>
               CountKind(result.warnings, "no_transfer_history") = 1

\* C17 as stated: on a list of IN and OUT transfers the call never raises,
\* and every zero or missing quote value, every sale against an empty queue
\* and every sale against an insufficient queue is recorded as a warning of
\* its own.
C17_EveryAnomalyWarned ==
    ValidInput =>
        /\ pc # "raised"
        /\ \A i \in 1..Len(transfers) :
              /\ ExpQuote(transfers[i]) = Zero =>
                    IF transfers[i].transfer_type = "IN"
                    THEN HasWarning(warnings,
                                    [kind |-> "missing_price", transfer |-> i,
                                     price |-> token.current_price])
                    ELSE HasWarning(warnings,
                                    [kind |-> "no_sale_price", transfer |-> i])
              /\ (transfers[i].transfer_type = "OUT" /\ MetEmptyQueue(i)) =>
                    HasWarning(warnings,
                               [kind |-> "sell_without_buy", transfer |-> i])
              /\ (/\ transfers[i].transfer_type = "OUT"
                  /\ ~MetEmptyQueue(i)
                  /\ RSign(SellLeft(i)) > 0) =>
                    HasWarning(warnings, [kind |-> "sold_more_than_bought",
                                          unmatched |-> SellLeft(i)])
        /\ ReturnsWarnings

\* C17: on a list of IN and OUT transfers the call never raises.  A transfer
\* of quantity 0 is skipped without any warning.  For a transfer of positive
\* quantity: a purchase with a zero or missing quote value has its
\* missing-price warning; a sale at an empty queue has its sell-without-buy
\* warning and no other; a sale at a queue with lots has its no-sale-price
\* warning exactly when its quote value is zero or missing, and the
\* sold-more-than-bought warning when the queue did not cover it.  The call
\* returns a TokenPNL that carries the warnings, a balance mismatch and a
\* balance without history included.
C17_NeverRaisesAnomaliesWarned ==
    ValidInput =>
        /\ pc # "raised"
        /\ \A i \in 1..Len(transfers) :
               IF RSign(ExpQty(transfers[i])) <= 0 THEN SkippedSilently(i)
               ELSE IF transfers[i].transfer_type = "IN"
               THEN BuyAnomalyRecorded(i)
               ELSE SellAnomalyRecorded(i)
        /\ ReturnsWarnings

\* C17 witness: a returned result that carries a missing-price, a
\* no-sale-price, a sold-more-than-bought, a sell-without-buy and a
\* balance-mismatch warning.
C17_Witness ==
    /\ pc = "done"
    /\ ValidInput
    /\ \A kind \in {"missing_price", "no_sale_price", "sold_more_than_bought",
                    "sell_without_buy", "balance_mismatch"} :
           CountKind(result.warnings, kind) >= 1

\* C17 witness of the skipped anomalies: the call returned on a list whose
\* first transfer is a sale without quote value at the empty queue and whose
\* second is a receipt of quantity 0 without quote value.
C17_SkippedWitness ==
    /\ pc = "done"
    /\ Len(transfers) >= 2
    /\ transfers[1].transfer_type = "OUT"
    /\ RSign(ExpQty(transfers[1])) > 0
    /\ ExpQuote(transfers[1]) = Zero
    /\ transfers[2].transfer_type = "IN"
    /\ RSign(ExpQty(transfers[2])) = 0
    /\ ExpQuote(transfers[2]) = Zero
    /\ CountKind(result.warnings, "sell_without_buy") = 1
    /\ CountKind(result.warnings, "no_sale_price") = 0
    /\ CountKind(result.warnings, "missing_price") = 0

\* The references of the objects that existed before any call.
InputRefs == 1..Len(InitialHeap)

\* The objects call c created and still refers to: its warning list, its
\* queue and the lots in the queue.
OwnedBy(c) ==
    IF frames[c].pc = "idle" THEN {}
    ELSE {frames[c].warnings}
         \cup (IF IsNone(frames[c].buy_queue) THEN {}
               ELSE {frames[c].buy_queue}
                    \cup {heap[frames[c].buy_queue].items[k] :
                            k \in 1..Len(heap[frames[c].buy_queue].items)})

\* The dicts a call was given, as they were before any call.
GivenToken(c) == InitialHeap[frames[c].token]
GivenTransfers(c) ==
    IF frames[c].transfers = <<>> THEN <<>>
    ELSE [k \in 1..Len(frames[c].transfers) |-> InitialHeap[frames[c].transfers[k]]]

\* C18: calculate_token_pnl is a pure function.  Whatever steps the calls on
\* one PNLCalculator take and in whatever order, no token dict, transfer dict
\* or configuration is ever written; the warning list, the queue and the lots
\* of a call are its own new objects, shared with no other call and no input;
\* the result of every call is the value the function has for its own token,
\* transfers and price_tolerance in a single call on its own; and two calls
\* given equal inputs return equal results.
C18_PureFunction ==
    /\ \A r \in InputRefs : heap[r] = InitialHeap[r]
    /\ \A c \in 1..MaxCalls :
          /\ OwnedBy(c) \cap InputRefs = {}
          /\ \A d \in 1..MaxCalls : c # d => OwnedBy(c) \cap OwnedBy(d) = {}
          /\ frames[c].pc = "done" =>
                frames[c].result =
                    calculate_token_pnl(GivenToken(c), GivenTransfers(c),
                                        CalculatorConfig.price_tolerance)
    /\ \A c, d \in 1..MaxCalls :
          (/\ frames[c].pc = "done"
           /\ frames[d].pc = "done"
           /\ GivenToken(c) = GivenToken(d)
           /\ GivenTransfers(c) = GivenTransfers(d))
          => frames[c].result = frames[d].result

\* C18 witness: two calls on the same token dict and the same list of transfer
\* dicts, a purchase and then a sale, have both returned a result with
\* warnings; the second call began and appended its lot after the first had
\* created its queue and before the first appended its own lot, so the two
\* calls took their steps in turn.
C18_Witness ==
    \E c, d \in 1..MaxCalls :
        /\ c # d
        /\ frames[c].pc = "done"
        /\ frames[d].pc = "done"
        /\ frames[c].token = frames[d].token
        /\ frames[c].transfers = frames[d].transfers
        /\ Len(frames[c].transfers) = MaxCallTransfers
        /\ heap[frames[c].transfers[1]].transfer_type = "IN"
        /\ heap[frames[c].transfers[2]].transfer_type = "OUT"
        /\ frames[c].result.warnings # <<>>
        /\ frames[c].result.positions_closed = 1
        /\ frames[c].buy_queue < frames[d].buy_queue
        /\ \E x \in frames[d].buy_queue + 1 .. Len(heap) :
              /\ "cost_per_unit" \in DOMAIN heap[x]
              /\ \E y \in x + 1 .. Len(heap) : "cost_per_unit" \in DOMAIN heap[y]
        /\ "cost_per_unit" \in DOMAIN heap[frames[d].buy_queue + 1]

\* The list is a purchase, a sale, a purchase, all of positive quantity, and
\* the two purchases have different unit costs.
ReorderCase ==
    /\ Len(transfers) = 3
    /\ transfers[1].transfer_type = "IN"
    /\ transfers[2].transfer_type = "OUT"
    /\ transfers[3].transfer_type = "IN"
    /\ \A i \in 1..3 : RSign(ExpQty(transfers[i])) > 0
    /\ ExpLotCost(transfers[1]) # ExpLotCost(transfers[3])

\* The same list with the two purchases swapped, and the locals the loop leaves
\* on it.
Swapped == <<transfers[3], transfers[2], transfers[1]>>
SwappedRun == RunLoop(InitialLocals, Swapped, 1, token.current_price)

\* The cost basis per unit the sale o consumed, recovered from the realized
\* PNL of the locals st: (exit_value - gas_portion - realized_pnl) / quantity.
ConsumedUnitCost(st, o) ==
    LET q == RSum([k \in 1..Len(st.matched) |-> st.matched[k].qty])
        exit_value == RMul(q, RDiv(ExpProceeds(o), ExpQty(o)))
        gas_portion == RMul(ExpGas(o), RDiv(q, ExpQty(o)))
    IN  RDiv(RSub(RSub(exit_value, gas_portion), st.realized_pnl), q)

\* C20 as stated: swapping the two purchases around the sale changes the cost
\* basis the sale consumes and, with it, the realized PNL.
C20_SwapChangesRealizedPnl ==
    ReorderCase =>
        /\ ~Near(ConsumedUnitCost(Locals, transfers[2]),
                 ConsumedUnitCost(SwappedRun, transfers[2]))
        /\ ~Near(realized_pnl, SwappedRun.realized_pnl)

\* C20 amended: the sale consumes the cost basis of the purchase given first,
\* so swapping the purchases changes the cost basis consumed; the realized PNL
\* changes whenever the sale matches the same quantity in both orders.
C20_SwapChangesCostBasis ==
    ReorderCase =>
        /\ matched # <<>>
        /\ Near(ConsumedUnitCost(Locals, transfers[2]), ExpLotCost(transfers[1]))
        /\ Near(ConsumedUnitCost(SwappedRun, transfers[2]), ExpLotCost(transfers[3]))
        /\ RSum([k \in 1..Len(matched) |-> matched[k].qty])
               = RSum([k \in 1..Len(SwappedRun.matched) |-> SwappedRun.matched[k].qty])
           => ~Near(realized_pnl, SwappedRun.realized_pnl)

\* C20 witness: two purchases of the same quantity at different unit costs
\* around a sale; the two orders realize different PNL.
C20_Witness ==
    /\ ReorderCase
    /\ ExpQty(transfers[1]) = ExpQty(transfers[3])
    /\ ~Near(realized_pnl, SwappedRun.realized_pnl)

\* The sum of a field over the TokenPNL collected for the wallet.
TokenSum(field) == RSum([i \in 1..Len(token_pnls) |-> token_pnls[i][field]])

\* C14: the WalletPNL totals are the sums of total_invested, current_value,
\* realized_pnl and unrealized_pnl over the tokens, total_pnl is the realized
\* total plus the unrealized total, and an empty collection gives zeros.
C14_WalletTotalsAreSums ==
    wpc = "done" =>
        /\ wallet_pnl.tokens = token_pnls
        /\ Near(wallet_pnl.total_invested, TokenSum("total_invested"))
        /\ Near(wallet_pnl.total_current_value, TokenSum("current_value"))
        /\ Near(wallet_pnl.total_realized_pnl, TokenSum("realized_pnl"))
        /\ Near(wallet_pnl.total_unrealized_pnl, TokenSum("unrealized_pnl"))
        /\ Near(wallet_pnl.total_pnl,
                RAdd(wallet_pnl.total_realized_pnl, wallet_pnl.total_unrealized_pnl))
        /\ token_pnls = <<>> =>
               /\ wallet_pnl.total_invested = Zero
               /\ wallet_pnl.total_current_value = Zero
               /\ wallet_pnl.total_realized_pnl = Zero
               /\ wallet_pnl.total_unrealized_pnl = Zero
               /\ wallet_pnl.total_pnl = Zero
               /\ wallet_pnl.total_roi_percent = Zero

\* C14 witness: two tokens were aggregated, each with an investment and a
\* realized and an unrealized PNL of its own.
C14_Witness ==
    /\ wpc = "done"
    /\ Len(token_pnls) = 2
    /\ \A i \in 1..2 :
           /\ token_pnls[i].total_invested # Zero
           /\ token_pnls[i].realized_pnl # Zero
           /\ token_pnls[i].unrealized_pnl # Zero
    /\ token_pnls[1] # token_pnls[2]

\* C15: total_roi_percent is (total_current_value + total_realized_pnl -
\* total_invested) / total_invested * 100 to 2 places when total_invested > 0
\* and 0 otherwise; this holds of the aggregate of every collection the loop
\* builds, the empty one included, and of the WalletPNL returned.
C15_WalletRoi ==
    LET w == aggregate_wallet_pnl(Wallet, Chain, token_pnls)
    IN  /\ w.total_roi_percent =
               Round(ExpRoi(TokenSum("current_value"), TokenSum("realized_pnl"),
                            TokenSum("total_invested")), 2)
        /\ ~RSign(TokenSum("total_invested")) > 0 => w.total_roi_percent = Zero
        /\ (wpc = "done" /\ assets # <<>>) => wallet_pnl = w
        /\ (wpc = "done" /\ assets = <<>>) => wallet_pnl.total_roi_percent = Zero

\* C15 witness: a wallet with an invested total, a realized total, and an ROI
\* that is not a whole number of hundredths before rounding.
C15_Witness ==
    /\ wpc = "done"
    /\ RSign(TokenSum("total_invested")) > 0
    /\ TokenSum("realized_pnl") # Zero
    /\ wallet_pnl.total_roi_percent #
           ExpRoi(TokenSum("current_value"), TokenSum("realized_pnl"),
                  TokenSum("total_invested"))

\* The number of positions of the list trs that hold x.
Occurrences(trs, x) == Cardinality({i \in 1..Len(trs) : trs[i] = x})

\* C19: the list calculate_wallet_pnl hands to calculate_token_pnl is in
\* non-decreasing timestamp order and holds exactly the transfers the API
\* client collected, each as often as collected.
C19_HandedSortedPermutation ==
    (wpc \in {"tokens", "done"} /\ pc = "done") =>
        /\ \A i, j \in 1..Len(transfers) :
               i < j => transfers[i].timestamp.at <= transfers[j].timestamp.at
        /\ Len(transfers) = Len(fetched) \/ SortRaises(fetched)
        /\ ~SortRaises(fetched) =>
               \A x \in NativeRecords \cup Erc20Records :
                   Occurrences(transfers, x) = Occurrences(fetched, x)

\* C19 witness: the pages gave two transfers of one instant (a transfer
\* recorded twice, or two events of one transaction) before an earlier one,
\* and the engine was called on the list with the earlier one moved to the
\* front.
C19_Witness ==
    /\ wpc = "tokens"
    /\ pc = "done"
    /\ Len(fetched) = 3
    /\ ~SortRaises(fetched)
    /\ fetched[1].timestamp = fetched[2].timestamp
    /\ fetched[3].timestamp.at < fetched[1].timestamp.at
    /\ transfers = <<fetched[3], fetched[1], fetched[2]>>

\* ------------------------------------------------------------------------
\* Claims on single iterations of the transfer loop
\* ------------------------------------------------------------------------

\* The recorded spend of the first n transfers: |delta_quote| + gas_quote of
\* every IN transfer of positive quantity.
RecordedSpend(n) ==
    RSum([i \in 1..n |->
             IF IsLot(i)
             THEN RAdd(ExpQuote(transfers[i]), ExpGas(transfers[i]))
             ELSE Zero])

\* C21: at every point of the loop total_invested is the sum over the IN
\* transfers of positive quantity processed so far of the recorded
\* |delta_quote| + gas_quote (the recorded quote value also when it is zero
\* and the lot got the fallback price); an OUT transfer leaves it as it is and
\* it never decreases.
C21_TotalInvestedRecordedSpend ==
    /\ [](total_invested = RecordedSpend(Len(transfers)))
    /\ [][/\ RLe(total_invested, total_invested')
          /\ \A t \in TransfersFor(token) :
                (Iterates(t) /\ t.transfer_type = "OUT")
                => total_invested' = total_invested]_vars

\* C21 witness: a lot bought without a price but with gas, a lot bought with
\* a price, and a sale matched against them.
C21_Witness ==
    /\ matched # <<>>
    /\ \E i, k \in 1..Len(transfers) :
          /\ IsLot(i)
          /\ ExpQuote(transfers[i]) = Zero
          /\ RSign(ExpGas(transfers[i])) > 0
          /\ IsLot(k)
          /\ RSign(ExpQuote(transfers[k])) > 0
    /\ RSign(total_invested) > 0

\* C25: a transfer whose quantity |delta_raw| / 10^decimals is <= 0 changes
\* nothing, whatever its type: the queue, realized_pnl, total_invested, both
\* position counters and the warning list stay as they are and the loop goes
\* on.
C25_NonPositiveQtyNoOp ==
    [][\A t \in TransfersFor(token) :
          (Iterates(t) /\ RSign(ExpQty(t)) <= 0)
          => /\ buy_queue' = buy_queue
             /\ realized_pnl' = realized_pnl
             /\ total_invested' = total_invested
             /\ positions_opened' = positions_opened
             /\ positions_closed' = positions_closed
             /\ warnings' = warnings
             /\ pc' = "run"]_vars

\* C25 witness: a zero-quantity IN transfer met an empty queue, and the last
\* transfer, a zero-quantity OUT transfer, met a queue holding a lot.
C25_Witness ==
    /\ pc = "run"
    /\ Len(transfers) >= 2
    /\ transfers[Len(transfers)].transfer_type = "OUT"
    /\ ExpQty(transfers[Len(transfers)]) = Zero
    /\ transfers[1].transfer_type = "IN"
    /\ ExpQty(transfers[1]) = Zero
    /\ buy_queue # <<>>
    /\ warnings = <<>>
    /\ positions_closed = 0

\* C26: an IN transfer of positive quantity and non-zero quote value appends
\* exactly one lot at the tail of the queue, of that quantity and of unit
\* cost (|delta_quote| + gas_quote) / qty, and leaves realized_pnl,
\* positions_closed, the warning list and the lots already queued unchanged.
C26_InAppendsOneLot ==
    [][\A t \in TransfersFor(token) :
          (/\ Iterates(t)
           /\ t.transfer_type = "IN"
           /\ RSign(ExpQty(t)) > 0
           /\ ExpQuote(t) # Zero)
          => /\ Len(buy_queue') = Len(buy_queue) + 1
             /\ SubSeq(buy_queue', 1, Len(buy_queue)) = buy_queue
             /\ buy_queue'[Len(buy_queue')].qty = ExpQty(t)
             /\ buy_queue'[Len(buy_queue')].cost_per_unit =
                    RDiv(RAdd(ExpQuote(t), ExpGas(t)), ExpQty(t))
             /\ buy_queue'[Len(buy_queue')].gas_usd = ExpGas(t)
             /\ realized_pnl' = realized_pnl
             /\ positions_closed' = positions_closed
             /\ warnings' = warnings
             /\ pc' = "run"]_vars

\* C26 witness: the last transfer, bought with a price and gas, is the second
\* lot of the queue, behind a lot whose purchase left a warning.
C26_Witness ==
    /\ pc = "run"
    /\ Len(buy_queue) >= 2
    /\ buy_queue[Len(buy_queue)].src = Len(transfers)
    /\ RSign(ExpQuote(transfers[Len(transfers)])) > 0
    /\ RSign(ExpGas(transfers[Len(transfers)])) > 0
    /\ warnings # <<>>

\* The realized PNL of the portions ms of a sale t at the proceeds `proceeds`,
\* the lots valued as the transfers trs bought them.
SalePnl(ms, t, proceeds, trs) ==
    RSum([k \in 1..Len(ms) |->
             RSub(RSub(RMul(ms[k].qty, RDiv(proceeds, ExpQty(t))),
                       RMul(ms[k].qty, ExpLotCost(trs[ms[k].lot]))),
                  RMul(ExpGas(t), RDiv(ms[k].qty, ExpQty(t))))])

\* C27: an OUT transfer of positive quantity that meets a non-empty queue is
\* realized at qty * current_price when its quote value is zero, with exactly
\* one `no sale price` warning naming it, and at |delta_quote| otherwise,
\* with no such warning.
C27_SaleProceeds ==
    [][\A t \in TransfersFor(token) :
          (/\ Iterates(t)
           /\ t.transfer_type = "OUT"
           /\ RSign(ExpQty(t)) > 0
           /\ buy_queue # <<>>)
          => LET unpriced == ExpQuote(t) = Zero
                 proceeds == IF unpriced
                             THEN RMul(ExpQty(t), token.current_price)
                             ELSE ExpQuote(t)
                 new == SubSeq(matched', Len(matched) + 1, Len(matched'))
             IN  /\ new # <<>>
                 /\ Near(RSub(realized_pnl', realized_pnl),
                         SalePnl(new, t, proceeds, transfers'))
                 /\ CountKind(warnings', "no_sale_price") =
                        CountKind(warnings, "no_sale_price")
                            + (IF unpriced THEN 1 ELSE 0)
                 /\ unpriced =>
                        /\ Len(warnings') > Len(warnings)
                        /\ warnings'[Len(warnings) + 1] =
                               [kind |-> "no_sale_price",
                                transfer |-> Len(transfers')]]_vars

\* C27 witness: a priced sale and then an unpriced sale were both matched
\* against the queue; only the second left a `no sale price` warning.
C27_Witness ==
    /\ Len(matched) >= 2
    /\ matched[Len(matched)].out = Len(transfers)
    /\ matched[1].out < Len(transfers)
    /\ RSign(ExpQuote(transfers[matched[1].out])) > 0
    /\ ExpQuote(transfers[Len(transfers)]) = Zero
    /\ CountKind(warnings, "no_sale_price") = 1
    /\ realized_pnl # Zero

\* The positions of the lots created by transfer number j in the queue q.
LotsOf(q, j) == {k \in 1..Len(q) : q[k].src = j}

\* C28: after every processed transfer every lot in the queue has qty > 0;
\* a lot comes from an IN transfer of positive quantity, holds what that
\* transfer bought less what the sales took from it one by one, never less
\* than nothing, and is in the queue exactly as long as something is left.
C28_QueueLotsPositive ==
    /\ \A k \in 1..Len(buy_queue) :
          /\ RSign(buy_queue[k].qty) > 0
          /\ buy_queue[k].src \in 1..Len(transfers)
          /\ IsLot(buy_queue[k].src)
          /\ buy_queue[k].qty = LotLeft(buy_queue[k].src, Len(matched))
    /\ \A j \in 1..Len(transfers) :
          IsLot(j) =>
              /\ RSign(LotLeft(j, Len(matched))) >= 0
              /\ Cardinality(LotsOf(buy_queue, j)) =
                     IF RSign(LotLeft(j, Len(matched))) = 0 THEN 0 ELSE 1

\* C28 witness: a sale consumed the oldest lot exactly; the queue holds the
\* younger lot only.
C28_Witness ==
    /\ pc = "run"
    /\ Len(buy_queue) = 1
    /\ buy_queue[1].src = 2
    /\ IsLot(1)
    /\ Len(matched) = 1
    /\ matched[1].lot = 1
    /\ matched[1].qty = ExpQty(transfers[1])

\* The kinds of warning the balance reconciliation left in the list ws.
MismatchWarnings(ws) == {w \in 1..Len(ws) : ws[w].kind = "balance_mismatch"}

\* C29: no division by zero is executed.  The call never raises; the IN cost
\* division is reached only with qty > 0; every matched portion belongs to a
\* sale of sell_qty > 0; the average cost basis is 0 when the queue holds
\* nothing, the mismatch percentage is 0 when the balance is 0, and ROI is 0
\* when nothing was invested.
C29_NoDivisionByZero ==
    /\ pc # "raised"
    /\ \A k \in 1..Len(buy_queue) :
          ExpQuote(transfers[buy_queue[k].src]) # Zero
              => RSign(ExpQty(transfers[buy_queue[k].src])) > 0
    /\ \A k \in 1..Len(matched) : RSign(ExpQty(transfers[matched[k].out])) > 0
    /\ (pc = "done" /\ transfers # <<>>) =>
          /\ result # None
          /\ QueueQty(buy_queue) = Zero => avg_cost_basis = Zero
          /\ token.balance = Zero =>
                 \A w \in MismatchWarnings(warnings) : warnings[w].diff_pct = Zero
          /\ total_invested = Zero => result.roi_percent = Zero

\* C29 witness: a call returned whose list held a priced IN transfer of
\* quantity zero, which sold from a lot bought for nothing, and which found a
\* balance of zero against a queue that still holds quantity.
C29_Witness ==
    /\ pc = "done"
    /\ token.balance = Zero
    /\ total_invested = Zero
    /\ matched # <<>>
    /\ MismatchWarnings(warnings) # {}
    /\ \E i \in 1..Len(transfers) :
          /\ transfers[i].transfer_type = "IN"
          /\ ExpQty(transfers[i]) = Zero
          /\ ExpQuote(transfers[i]) # Zero

\* Transfer number i of the list met an empty queue: every lot bought before
\* it was fully consumed by the sales before it.
QueueEmptyAt(i) ==
    \A j \in 1..(i - 1) :
        IsLot(j) =>
            RSum([x \in 1..Len(matched) |->
                     IF matched[x].lot = j /\ matched[x].out < i
                     THEN matched[x].qty ELSE Zero]) = ExpQty(transfers[j])

\* Transfer number i is a sale of positive quantity.
IsSale(i) ==
    transfers[i].transfer_type = "OUT" /\ RSign(ExpQty(transfers[i])) > 0

\* C30: positions_opened counts the IN transfers of positive quantity and
\* positions_closed the OUT transfers of positive quantity that met a
\* non-empty queue (a sale from an empty queue is not counted); the result
\* reports both counters.
C30_PositionCounters ==
    /\ positions_opened = Cardinality({i \in 1..Len(transfers) : IsLot(i)})
    /\ positions_closed =
           Cardinality({i \in 1..Len(transfers) : IsSale(i) /\ ~QueueEmptyAt(i)})
    /\ (pc = "done" /\ transfers # <<>>) =>
          /\ result.positions_opened = positions_opened
          /\ result.positions_closed = positions_closed

\* C30 witness: a call returned in which one sale emptied the queue and the
\* next sale met it empty.
C30_Witness ==
    /\ pc = "done"
    /\ Len(transfers) = 3
    /\ IsLot(1)
    /\ IsSale(2)
    /\ IsSale(3)
    /\ QueueEmptyAt(3)
    /\ result.positions_opened = 1
    /\ result.positions_closed = 1

\* ------------------------------------------------------------------------
\* Claims on the API client and on errors of the API
\* ------------------------------------------------------------------------

\* C22: when an error response of the API ends the fetch of a token's
\* transfer history, no TokenPNL for that token is in the wallet's list (the
\* other tokens are still processed).
C22_ApiErrorSkipsToken ==
    (wpc \in {"tokens", "done"} /\ asset_index >= 2 /\ api_error) =>
        \A k \in 1..Len(token_pnls) :
            token_pnls[k].ticker # assets[asset_index - 1].ticker

\* Request number i asked for a page after the first and was rate limited.
RateLimitedNext(i) ==
    /\ i \in 1..Len(requests)
    /\ requests[i].code = RateLimit
    /\ requests[i].page > 1

\* The transfers of page p are in the collected list.
PageRecorded(p) ==
    \A x \in 1..Len(NativeItems(p)) :
        NativeQualifies(NativeItems(p)[x], Wallet) =>
            \E k \in 1..Len(fetched) : fetched[k].tx_hash = NativeItems(p)[x].tx_hash

\* C23: a rate-limited (429) next-page request of fetch_native_transfers is
\* retried for the same page: the fetch is not ended by it, the request that
\* follows asks for that page again, the pages answered are 1, 2, 3, ...
\* without a gap, the fetch goes on with the page a retry obtained, and a
\* rate-limited request is always followed by a later request that is
\* answered otherwise.
C23_RetriesSamePage ==
    /\ [](token.native =>
            \A i \in 1..Len(requests) :
               /\ RateLimitedNext(i) =>
                     /\ i = Len(requests) =>
                            /\ fpc \in {"page", "next"}
                            /\ data = requests[i].page - 1
                     /\ i < Len(requests) => requests[i + 1].page = requests[i].page
               /\ requests[i].code = Ok =>
                     /\ requests[i].page =
                            1 + Answered(SubSeq(requests, 1, i - 1), Ok)
                     /\ i = Len(requests) => data = requests[i].page
                     /\ (i < Len(requests) \/ fpc \in {"next", "returned"})
                            => PageRecorded(requests[i].page))
    /\ (token.native /\ RateLimitedNext(Len(requests)))
           ~> ~RateLimitedNext(Len(requests))

\* C23 witness: the request for page 2 was rate limited twice and then
\* answered; the fetch went on to page 3 and returned with the transfers of
\* the pages.
C23_Witness ==
    /\ token.native
    /\ fpc = "returned"
    /\ Len(requests) >= 5
    /\ requests[2] = [page |-> 2, code |-> RateLimit]
    /\ requests[3] = [page |-> 2, code |-> RateLimit]
    /\ requests[4] = [page |-> 2, code |-> Ok]
    /\ requests[5] = [page |-> 3, code |-> Ok]
    /\ PageRecorded(2)
    /\ PageRecorded(3)

\* C24: for a native and for an ERC20 token, fetch_token_transfers retrieves
\* at most config.max_pages pages.
C24_AtMostMaxPages == Answered(requests, Ok) <= max_pages

\* ------------------------------------------------------------------------
\* Claims on the matching loop and on the lots that remain
\* ------------------------------------------------------------------------

\* The portions a step of the transfer loop matched.
NewPortions == SubSeq(matched', Len(matched) + 1, Len(matched'))

\* C33: an OUT transfer whose quantity the queue covers is matched in full:
\* the exit values matched * (proceeds / sell_qty) of its portions sum to the
\* proceeds, the gas portions gas * (matched / sell_qty) sum to the gas, and
\* the realized PNL it adds is proceeds - gas - the sum of matched quantity *
\* cost_per_unit over the lots it consumed.
C33_FullyMatchedSale ==
    [][\A t \in TransfersFor(token) :
          (/\ Iterates(t)
           /\ t.transfer_type = "OUT"
           /\ RSign(ExpQty(t)) > 0
           /\ RLe(ExpQty(t), QueueQty(buy_queue)))
          => LET new == NewPortions
                 share(k) == RDiv(new[k].qty, ExpQty(t))
                 per_unit == RDiv(ExpProceeds(t), ExpQty(t))
             IN  /\ Near(RSum([k \in 1..Len(new) |-> RMul(new[k].qty, per_unit)]),
                         ExpProceeds(t))
                 /\ Near(RSum([k \in 1..Len(new) |-> RMul(ExpGas(t), share(k))]),
                         ExpGas(t))
                 /\ Near(RSub(realized_pnl', realized_pnl),
                         RSub(RSub(ExpProceeds(t), ExpGas(t)),
                              RSum([k \in 1..Len(new) |->
                                       RMul(new[k].qty,
                                            ExpLotCost(transfers'[new[k].lot]))])))]_vars

\* C33 witness: a sale was matched in full against two lots of different unit
\* cost, the second only in part.
C33_Witness ==
    /\ Len(matched) = 2
    /\ matched[1].out = Len(transfers)
    /\ matched[2].out = Len(transfers)
    /\ matched[1].lot # matched[2].lot
    /\ ExpLotCost(transfers[matched[1].lot]) # ExpLotCost(transfers[matched[2].lot])
    /\ RAdd(matched[1].qty, matched[2].qty) = ExpQty(transfers[Len(transfers)])
    /\ buy_queue # <<>>

RECURSIVE LotTransfers(_)
\* The positions of the IN transfers of positive quantity among the first n
\* transfers, in the order of the list.
LotTransfers(n) ==
    IF n = 0 THEN <<>>
    ELSE IF IsLot(n) THEN Append(LotTransfers(n - 1), n) ELSE LotTransfers(n - 1)

\* C34: after every processed transfer the lots of the queue are, in order,
\* the last lots bought (a contiguous suffix of the IN transfers of positive
\* quantity processed so far); every lot but the head holds the full quantity
\* it was bought with, the head holds at most that, and every lot has the
\* cost_per_unit it was created with.
C34_QueueIsSuffixOfBuys ==
    LET lots == LotTransfers(Len(transfers))
        skipped == Len(lots) - Len(buy_queue)
    IN  /\ skipped >= 0
        /\ \A k \in 1..Len(buy_queue) :
              LET bought == transfers[lots[skipped + k]]
              IN  /\ buy_queue[k].src = lots[skipped + k]
                  /\ buy_queue[k].cost_per_unit = ExpLotCost(bought)
                  /\ RLe(buy_queue[k].qty, ExpQty(bought))
                  /\ k > 1 => buy_queue[k].qty = ExpQty(bought)

\* C34 witness: a sale took part of the oldest lot; the queue is that lot,
\* holding less than it was bought with, followed by a younger lot of another
\* unit cost that is untouched.
C34_Witness ==
    /\ Len(buy_queue) = 2
    /\ matched # <<>>
    /\ RLt(buy_queue[1].qty, ExpQty(transfers[buy_queue[1].src]))
    /\ buy_queue[1].cost_per_unit # buy_queue[2].cost_per_unit

\* The unit costs of the lots of the queue q.
UnitCosts(q) == {q[k].cost_per_unit : k \in 1..Len(q)}

\* c is the smallest (the largest) of the unit costs cs.
IsMinCost(c, cs) == c \in cs /\ \A x \in cs : RLe(c, x)
IsMaxCost(c, cs) == c \in cs /\ \A x \in cs : RLe(x, c)

QueueAtStart ==
    RunLoop(InitialLocals, SubSeq(transfers, 1, Len(transfers) - 1), 1,
            token.current_price).buy_queue

\* The passes the matching loop of the last transfer has made.
Passes == Cardinality({k \in 1..Len(matched) : matched[k].out = Len(transfers)})

\* C35: the matching loop of an OUT transfer terminates: every pass removes
\* the head lot or brings remaining_sell to zero, the loop makes at most as
\* many passes as the queue held lots when the transfer arrived, it is left
\* with remaining_sell zero or the queue empty, and the call returns.
C35_MatchingLoopTerminates ==
    /\ [](Passes <= Len(QueueAtStart))
    /\ [][(pc = "match" /\ matched' # matched)
             => \/ buy_queue' = Tail(buy_queue)
                \/ remaining_to_sell' = Zero]_vars
    /\ [](pc # "match" => (remaining_to_sell = Zero \/ buy_queue = <<>>))
    /\ <>(pc # "match")
    /\ <>(pc = "done")

\* C35 witness: the loop made as many passes as the queue held lots, two, and
\* the call returned.
C35_Witness ==
    /\ pc = "done"
    /\ Len(QueueAtStart) = 2
    /\ Passes = 2

\* ------------------------------------------------------------------------
\* Claims on what the fetch records and on the isolation of failures
\* ------------------------------------------------------------------------

\* The number of entries of the list trs that record the transaction tx.
Recorded(trs, tx) ==
    Cardinality({k \in 1..Len(trs) : trs[k].tx_hash = tx.tx_hash})

\* C36: in the list fetch_native_transfers returns, every qualifying
\* transaction of every page it fetched is recorded exactly once, whatever
\* the API answered, rate-limited next-page requests included.
C36_EachTransactionOnce ==
    (token.native /\ fpc = "returned") =>
        \A p \in 1..Answered(requests, Ok) :
            \A x \in 1..Len(NativeItems(p)) :
                NativeQualifies(NativeItems(p)[x], Wallet)
                    => Recorded(fetched, NativeItems(p)[x]) = 1

\* ------------------------------------------------------------------------
\* src/pnl_calculator.py: calculate_all, wallet by wallet on every chain
\* ------------------------------------------------------------------------

\* The most (chain, wallet) pairs a configuration makes calculate_all go
\* through here.
MaxPairs == 4

\* The chain names Config.chains is taken from, in the configured order.
ChainNames ==
    <<Chain, "matic-mainnet", "bsc-mainnet", "base-mainnet", "arbitrum-mainnet">>

\* The wallet addresses Config.wallets is taken from.
WalletNames == <<Wallet, "0xwallet2">>

\* The two assets fetch_balances reports for a wallet that holds any.
PairAssets ==
    << Asset(Token("TKN", R(1), Frac(1, 3)), FALSE),
       Asset(Token("ETH", R(2), R(4)), TRUE) >>

\* What fetch_erc20_transfers can collect for the first asset, a token of 6
\* decimals: two units bought for $6 of which one is sold without a quote
\* for $1 of gas, or two purchases of which one has no block time.
FirstCollected ==
    { erc20_transfers_of(
          << [successful |-> TRUE, gas_quote |-> None,
              transfers |-> << Erc20Event("0xf", Wallet, BigE(2, 6), R(6), 6,
                                          At(1)) >>],
             [successful |-> TRUE, gas_quote |-> R(1),
              transfers |-> << Erc20Event("0xg", Other, BigE(1, 6), None, 6,
                                          At(2)) >>] >>, Wallet),
      erc20_transfers_of(
          << [successful |-> TRUE, gas_quote |-> R(1),
              transfers |-> << Erc20Event("0xh", Wallet, BigE(1, 6), R(4), 6,
                                          At(1)),
                               Erc20Event("0xh", Wallet, BigE(1, 6), None, 6,
                                          None) >>] >>, Wallet) }

\* What fetch_native_transfers can collect for the second asset: one
\* purchase, or that purchase after a receipt without block time.
SecondCollected ==
    { native_transfers_of(
          << NativeTx("0xi", BigE(1, 18), TRUE, Wallet, Other, R(4), R(1),
                      At(1)) >>, Wallet),
      native_transfers_of(
          << NativeTx("0xj", BigE(1, 18), TRUE, Wallet, Other, None, R(1), None),
             NativeTx("0xi", BigE(1, 18), TRUE, Wallet, Other, R(4), R(1),
                      At(1)) >>, Wallet) }

\* What the API gives calculate_wallet_pnl for one wallet on one chain:
\* fetch_balances raises (balances_error), or reports no asset, or reports
\* PairAssets, and then one collected list per asset.
PairInputs ==
    { [balances_error |-> TRUE, assets |-> <<>>, collected |-> <<>>],
      [balances_error |-> FALSE, assets |-> <<>>, collected |-> <<>>] }
    \cup
    { [balances_error |-> FALSE, assets |-> PairAssets, collected |-> <<a, b>>]
        : a \in FirstCollected, b \in SecondCollected }

RECURSIVE token_loop_stops_at_failure(_, _, _, _, _)
\* Mutant of token_loop: the first asset that raises ends the loop.
token_loop_stops_at_failure(pnls, toks, collected, k, tolerance_fraction) ==
    IF k > Len(toks) THEN pnls
    ELSE IF SortRaises(collected[k]) THEN pnls
    ELSE LET trs == fetch_token_transfers(toks[k], collected[k], collected[k])
             pnl == calculate_token_pnl(toks[k], trs, tolerance_fraction)
         IN  IF pnl = None THEN pnls
             ELSE token_loop_stops_at_failure(Append(pnls, pnl), toks, collected,
                                              k + 1, tolerance_fraction)

RECURSIVE token_loop(_, _, _, _, _)
\* `for token in assets` of calculate_wallet_pnl from asset k on, pnls being
\* token_pnls so far: an asset whose fetch, sort or calculation raises is
\* reported and skipped, every other asset's TokenPNL is appended.
token_loop(pnls, toks, collected, k, tolerance_fraction) ==
    IF k > Len(toks) THEN pnls
    ELSE IF SortRaises(collected[k])
         THEN token_loop(pnls, toks, collected, k + 1, tolerance_fraction)
    ELSE LET trs == fetch_token_transfers(toks[k], collected[k], collected[k])
             pnl == calculate_token_pnl(toks[k], trs, tolerance_fraction)
         IN  IF pnl = None
             THEN token_loop(pnls, toks, collected, k + 1, tolerance_fraction)
             ELSE token_loop(Append(pnls, pnl), toks, collected, k + 1,
                             tolerance_fraction)

\* WalletPNLCalculator.calculate_wallet_pnl on the input inp: the WalletPNL it
\* returns, or None when fetch_balances raises (the exception leaves the
\* method).
calculate_wallet_pnl(wallet, chain, inp, tolerance_fraction) ==
    IF inp.balances_error THEN None
    ELSE IF inp.assets = <<>> THEN create_empty_wallet_pnl(wallet, chain)
    ELSE aggregate_wallet_pnl(wallet, chain,
                              token_loop(<<>>, inp.assets, inp.collected, 1,
                                         tolerance_fraction))

\* calculate_all is called on a valid configuration: at least one chain and
\* one wallet, at most MaxPairs pairs, the default price tolerance; nothing
\* calculated yet.
AllInit ==
    /\ token = None
    /\ price_tolerance = Frac(1, 100)
    /\ transfers = <<>>
    /\ pc = "idle"
    /\ buy_queue = <<>>
    /\ realized_pnl = Zero
    /\ total_invested = Zero
    /\ positions_opened = 0
    /\ positions_closed = 0
    /\ warnings = <<>>
    /\ avg_cost_basis = Zero
    /\ unrealized_pnl = Zero
    /\ result = None
    /\ matched = <<>>
    /\ CallsIdle
    /\ WalletIdle
    /\ ClientIdle
    /\ MatchIdle
    /\ \E c \in 1..Len(ChainNames), w \in 1..Len(WalletNames) :
          /\ c * w <= MaxPairs
          /\ chains = SubSeq(ChainNames, 1, c)
          /\ wallets = SubSeq(WalletNames, 1, w)
    /\ chain_index = 1
    /\ wallet_index = 1
    /\ results = <<>>
    /\ pair_inputs = <<>>
    /\ apc = "pairs"

\* The loop variables move to the next wallet, or to the first wallet of the
\* next chain after the last wallet.
NextPair ==
    IF wallet_index < Len(wallets)
    THEN /\ wallet_index' = wallet_index + 1
         /\ chain_index' = chain_index
    ELSE /\ wallet_index' = 1
         /\ chain_index' = chain_index + 1

\* One pass of the wallet loop whose calculate_wallet_pnl raises: the
\* exception is caught and reported, nothing is appended.
CalcPairFails ==
    /\ apc = "pairs"
    /\ chain_index <= Len(chains)
    /\ \E inp \in PairInputs :
          /\ calculate_wallet_pnl(wallets[wallet_index], chains[chain_index], inp,
                                  price_tolerance) = None
          /\ pair_inputs' = Append(pair_inputs, inp)
    /\ NextPair
    /\ UNCHANGED <<chains, wallets, results, apc>>
    /\ UNCHANGED engine_vars
    /\ UNCHANGED wallet_vars
    /\ UNCHANGED client_vars
    /\ UNCHANGED match_vars

\* One pass of the wallet loop: the WalletPNL of the wallet on the chain is
\* appended to results.
CalcPair ==
    /\ apc = "pairs"
    /\ chain_index <= Len(chains)
    /\ \E inp \in PairInputs :
          LET pnl == calculate_wallet_pnl(wallets[wallet_index], chains[chain_index],
                                          inp, price_tolerance)
          IN  /\ pnl # None
              /\ results' = Append(results, pnl)
              /\ pair_inputs' = Append(pair_inputs, inp)
    /\ NextPair
    /\ UNCHANGED <<chains, wallets, apc>>
    /\ UNCHANGED engine_vars
    /\ UNCHANGED wallet_vars
    /\ UNCHANGED client_vars
    /\ UNCHANGED match_vars

\* After the last chain: the summary is displayed and results returned.
AllReturn ==
    /\ apc = "pairs"
    /\ chain_index > Len(chains)
    /\ apc' = "done"
    /\ UNCHANGED <<chains, wallets, chain_index, wallet_index, results, pair_inputs>>
    /\ UNCHANGED engine_vars
    /\ UNCHANGED wallet_vars
    /\ UNCHANGED client_vars
    /\ UNCHANGED match_vars

AllNext ==
    \/ CalcPairFails
    \/ CalcPair
    \/ AllReturn

AllSpec == AllInit /\ [][AllNext]_vars

\* ------------------------------------------------------------------------
\* Claims on calculate_all and on the wallet totals it returns
\* ------------------------------------------------------------------------

\* Fetching, sorting or calculating asset k of the wallet input inp raises.
TokenRaises(inp, k) ==
    \/ SortRaises(inp.collected[k])
    \/ calculate_token_pnl(inp.assets[k], sorted_by_timestamp(inp.collected[k]),
                           price_tolerance) = None

\* The positions, in order, of the assets of inp that do not raise.
Processed(inp) ==
    SelectSeq([k \in 1..Len(inp.assets) |-> k], LAMBDA k : ~TokenRaises(inp, k))

\* The TokenPNLs of the assets of inp that do not raise, in the order of the
\* assets.
ProcessedPNLs(inp) ==
    LET kept == Processed(inp)
    IN  [j \in 1..Len(kept) |->
            calculate_token_pnl(inp.assets[kept[j]],
                                sorted_by_timestamp(inp.collected[kept[j]]),
                                price_tolerance)]

\* The chain and the wallet of the k-th (chain, wallet) pair in chain-major,
\* wallet-minor configuration order.
PairChain(k) == chains[((k - 1) \div Len(wallets)) + 1]
PairWallet(k) == wallets[((k - 1) % Len(wallets)) + 1]

\* The positions, in order, of the pairs gone through whose fetch_balances
\* did not raise.
Succeeded ==
    SelectSeq([k \in 1..Len(pair_inputs) |-> k],
              LAMBDA k : ~pair_inputs[k].balances_error)

\* C31: failures are isolated. results holds, in chain-major, wallet-minor
\* configuration order, one WalletPNL for every pair gone through that did
\* not raise, whatever other pairs did; the WalletPNL of a wallet with assets
\* is the aggregate of the TokenPNLs of exactly the assets that did not
\* raise, in the order of the assets; and calculate_all returns after going
\* through every pair.
C31_FailuresAreIsolated ==
    /\ Len(results) = Len(Succeeded)
    /\ \A j \in 1..Len(results) :
          LET k == Succeeded[j]
              inp == pair_inputs[k]
              pnls == ProcessedPNLs(inp)
          IN  /\ results[j].wallet = PairWallet(k)
              /\ results[j].chain = PairChain(k)
              /\ inp.assets # <<>> =>
                    /\ results[j].tokens = pnls
                    /\ results[j] =
                         aggregate_wallet_pnl(PairWallet(k), PairChain(k), pnls)
    /\ apc = "done" => Len(pair_inputs) = Len(chains) * Len(wallets)

\* C31 witness: calculate_all has returned for two chains and two wallets;
\* the first pair raised, the three others are in results, and for one of
\* them the first asset raised and the second is in its WalletPNL.
C31_Witness ==
    /\ apc = "done"
    /\ Len(chains) = 2
    /\ Len(wallets) = 2
    /\ pair_inputs[1].balances_error
    /\ Len(results) = 3
    /\ results[1].wallet = wallets[2]
    /\ results[2].chain = chains[2]
    /\ \E j \in 1..3 :
          /\ pair_inputs[j + 1].assets # <<>>
          /\ TokenRaises(pair_inputs[j + 1], 1)
          /\ ~TokenRaises(pair_inputs[j + 1], 2)
          /\ Len(results[j].tokens) = 1
          /\ results[j].tokens[1].ticker = "ETH"

\* C32: the total_pnl of a WalletPNL is the sum of the total_pnl fields of
\* the TokenPNL entries it contains.
C32_WalletTotalIsSumOfTokenTotals ==
    \A k \in 1..Len(results) :
        Near(results[k].total_pnl,
             RSum([i \in 1..Len(results[k].tokens) |-> results[k].tokens[i].total_pnl]))

============================================================================
